---- MODULE Spec2Model ----
(***************************************************************************)
(* Finance tracker: the three record stores (transactions, budgets, goals) *)
(* kept as pipe-delimited text files, the operations that mutate them, and *)
(* the metrics and scoring functions derived from them.                    *)
(*                                                                         *)
(* Conventions of the model                                                *)
(*  - A file is the sequence of its lines; a line is the record of the     *)
(*    fields as they were formatted into it.  Free-text fields (a goal     *)
(*    name, a transaction description) are sequences of one-character      *)
(*    strings, so that strip(), lower() and split('|') are computed.       *)
(*  - A date "YYYY-MM-DD" is <<ym, dd>>: ym numbers the calendar months,    *)
(*    dd is the day of the month.  The month key "YYYY-MM" of a date is    *)
(*    its first component; startswith(month) and date[:7] == month are     *)
(*    both equality on that component.                                     *)
(*  - A Python float obtained as (a / b) * 100 from integers is the exact  *)
(*    rational [n |-> a * 100, d |-> b]; comparisons against the integer   *)
(*    thresholds of the code are cross-multiplied.  On the amounts of      *)
(*    this model IEEE doubles order these values exactly as the rationals. *)
(*  - File-system failures (the except branches of the writers) are not    *)
(*    modelled: every open() succeeds.                                     *)
(***************************************************************************)
EXTENDS Integers, Sequences, FiniteSets, TLC

VARIABLES
    transactions_file,  \* database/transactions.txt
    budgets_file,       \* database/budgets.txt
    goals_file,         \* database/goals.txt
    today,              \* datetime.now(), as <<ym, dd>>
    ret,                \* what the last store call returned: "True", "False"
    call                \* a pure function under test: its arguments and result

vars == <<transactions_file, budgets_file, goals_file, today, ret, call>>

----------------------------------------------------------------------------
(* Bounds *)

MaxTx == 2          \* lines in transactions.txt (budget specification)
MaxScoreTx == 4     \* lines in transactions.txt (score specification)
MaxAdhTx == 3       \* lines in transactions.txt (adherence specification)
MaxMonth == 2       \* calendar months 1..MaxMonth
MaxGoals == 2       \* lines in goals.txt
MaxErrTx == 1       \* lines in transactions.txt (missing-record specification)
MaxRtBefore == 1    \* transactions in the ledger before a round trip
MaxRtN == 2         \* transactions appended in a round trip
MaxZeroTx == 2      \* lines in transactions.txt (zero-denominator specification)
MaxRatioArg == 3    \* numerators -1..MaxRatioArg, denominators 0..MaxRatioArg
MaxMomTx == 2       \* lines in transactions.txt (month-over-month specification)
MaxTrendTx == 3     \* lines in transactions.txt (trend specification)
MaxTrendMonths == 3 \* months asked of get_spending_trend: 0..MaxTrendMonths
MaxSpikeTx == 5     \* lines in transactions.txt (spike specification)
MaxCalMonth == 14   \* today lies in the months 1..MaxCalMonth (January 2024 on)
MaxLastN == 3       \* months asked of get_last_n_months_data: 0..MaxLastN
MaxGoalMonth == 4   \* goal dates lie in the months 1..MaxGoalMonth
MaxAlertTx == 4     \* lines in transactions.txt (alert specification)
MaxTierTx == 3      \* lines in transactions.txt (tier specification)
MaxSpreeTx == 4     \* lines in transactions.txt (spree specification)
MaxConsTx == 7      \* lines in transactions.txt (consistency specification)
MaxScore == 100     \* scores 0..MaxScore handed to the rating functions

----------------------------------------------------------------------------
(* Text helpers *)

IsSpace(c) == c = " "

RECURSIVE lstrip(_)
lstrip(s) ==
    IF s = <<>> THEN <<>>
    ELSE IF IsSpace(Head(s)) THEN lstrip(Tail(s)) ELSE s

RECURSIVE rstrip(_)
rstrip(s) ==
    IF s = <<>> THEN <<>>
    ELSE IF IsSpace(s[Len(s)]) THEN rstrip(SubSeq(s, 1, Len(s) - 1)) ELSE s

LowerChar(c) == IF c = "A" THEN "a" ELSE IF c = "B" THEN "b" ELSE c

lower(s) == [i \in 1..Len(s) |-> LowerChar(s[i])]

\* the number of '|' in a free-text field: each one adds a part to split('|')
CountPipes(s) == Cardinality({i \in 1..Len(s) : s[i] = "|"})

----------------------------------------------------------------------------
(* Rationals standing for the floats (a / b) * 100 *)

Ratio100(a, b) == [n |-> a * 100, d |-> b]
Zero == [n |-> 0, d |-> 1]

GE(r, k) == r.n >= k * r.d
LT(r, k) == r.n < k * r.d
GT(r, k) == r.n > k * r.d
EQ(r, k) == r.n = k * r.d
RatLE(r, s) == r.n * s.d <= s.n * r.d

----------------------------------------------------------------------------
(* The calendar behind datetime: month number 1 is January of BaseYear *)

BaseYear == 2024

YearOf(ym) == BaseYear + ((ym - 1) \div 12)
MonthOf(ym) == ((ym - 1) % 12) + 1

IsLeapYear(y) == (y % 4 = 0 /\ y % 100 # 0) \/ y % 400 = 0

DaysInMonth(ym) ==
    IF MonthOf(ym) \in {4, 6, 9, 11} THEN 30
    ELSE IF MonthOf(ym) = 2 THEN (IF IsLeapYear(YearOf(ym)) THEN 29 ELSE 28)
    ELSE 31

\* date.replace(day=1)
ReplaceDay1(date) == <<date[1], 1>>

\* date - timedelta(days=1)
MinusOneDay(date) ==
    IF date[2] > 1 THEN <<date[1], date[2] - 1>>
    ELSE <<date[1] - 1, DaysInMonth(date[1] - 1)>>

\* date.strftime("%Y-%m")
StrftimeMonth(date) == date[1]

\* the days of the months 1..ym-1
RECURSIVE DaysBefore(_)
DaysBefore(ym) ==
    IF ym <= 1 THEN 0 ELSE DaysInMonth(ym - 1) + DaysBefore(ym - 1)

\* (to - from).days for two dates at midnight, months 1 and later
DaysBetween(from, to) ==
    (DaysBefore(to[1]) + to[2]) - (DaysBefore(from[1]) + from[2])

\* date - timedelta(days=k), k >= 0
RECURSIVE MinusDays(_, _)
MinusDays(date, k) ==
    IF k < date[2] THEN <<date[1], date[2] - k>>
    ELSE MinusDays(<<date[1] - 1, DaysInMonth(date[1] - 1)>>, k - date[2])

Max(a, b) == IF a >= b THEN a ELSE b

----------------------------------------------------------------------------
(* transactions.py: file operations *)

TRANSACTION_TYPES == {"expense", "income"}

\* the transaction a line parses to, when it parses
ParseTransaction(line) ==
    [date |-> line.date, type |-> line.type, category |-> line.category,
     amount_paisa |-> line.amount_paisa, description |-> rstrip(line.description)]

TransactionLineOk(line) ==
    /\ 5 + CountPipes(line.description) = 5
    /\ line.type \in TRANSACTION_TYPES

RECURSIVE ReadTransactionLines(_)
ReadTransactionLines(lines) ==
    IF lines = <<>> THEN <<>>
    ELSE IF TransactionLineOk(Head(lines))
         THEN <<ParseTransaction(Head(lines))>> \o ReadTransactionLines(Tail(lines))
         ELSE ReadTransactionLines(Tail(lines))

read_transactions == ReadTransactionLines(transactions_file)

FormatTransaction(t) ==
    [date |-> t.date, type |-> t.type, category |-> t.category,
     amount_paisa |-> t.amount_paisa, description |-> t.description]

write_transaction(date, trans_type, category, amount_paisa, description) ==
    /\ transactions_file' = Append(transactions_file,
            [date |-> date, type |-> trans_type, category |-> category,
             amount_paisa |-> amount_paisa, description |-> description])
    /\ ret' = "True"

update_transaction(index, updated_data) ==
    LET transactions == read_transactions IN
    IF index < 0 \/ index >= Len(transactions)
    THEN /\ ret' = "False"
         /\ UNCHANGED transactions_file
    ELSE /\ transactions_file' =
                [i \in 1..Len(transactions) |->
                    FormatTransaction(IF i = index + 1 THEN updated_data
                                      ELSE transactions[i])]
         /\ ret' = "True"

\* pop(0) in place of pop(index)
delete_transaction_first(index) ==
    LET transactions == read_transactions IN
    IF index < 0 \/ index >= Len(transactions)
    THEN /\ ret' = "False"
         /\ UNCHANGED transactions_file
    ELSE /\ transactions_file' =
                [i \in 1..(Len(transactions) - 1) |->
                    FormatTransaction(transactions[i + 1])]
         /\ ret' = "True"

\* the index check taken one too far
delete_transaction_upto_len(index) ==
    LET transactions == read_transactions IN
    IF index < 0 \/ index > Len(transactions)
    THEN /\ ret' = "False"
         /\ UNCHANGED transactions_file
    ELSE /\ transactions_file' =
                [i \in 1..(IF index = Len(transactions) THEN index ELSE Len(transactions) - 1) |->
                    FormatTransaction(IF i < index + 1 THEN transactions[i]
                                      ELSE transactions[i + 1])]
         /\ ret' = "True"

delete_transaction(index) ==
    LET transactions == read_transactions IN
    IF index < 0 \/ index >= Len(transactions)
    THEN /\ ret' = "False"
         /\ UNCHANGED transactions_file
    ELSE /\ transactions_file' =
                [i \in 1..(Len(transactions) - 1) |->
                    FormatTransaction(IF i < index + 1 THEN transactions[i]
                                      ELSE transactions[i + 1])]
         /\ ret' = "True"

filter_by_type(transactions, trans_type) ==
    SelectSeq(transactions, LAMBDA t : t.type = trans_type)

filter_by_category(transactions, category) ==
    SelectSeq(transactions, LAMBDA t : t.category = category)

RECURSIVE SumAmounts(_)
SumAmounts(transactions) ==
    IF transactions = <<>> THEN 0
    ELSE Head(transactions).amount_paisa + SumAmounts(Tail(transactions))

----------------------------------------------------------------------------
(* budgets.py: file operations *)

BUDGET_PERIODS == {"monthly", "weekly"}

BudgetLineOk(line) == line.period \in BUDGET_PERIODS

read_budgets == SelectSeq(budgets_file, BudgetLineOk)

\* the position of the first budget of a category, 0 when there is none
FirstBudgetIndex(budgets, category) ==
    IF \E i \in 1..Len(budgets) : budgets[i].category = category
    THEN CHOOSE i \in 1..Len(budgets) :
            /\ budgets[i].category = category
            /\ \A j \in 1..(i - 1) : budgets[j].category # category
    ELSE 0

write_budget(category, limit_paisa, period) ==
    /\ budgets_file' = Append(budgets_file,
            [category |-> category, limit_paisa |-> limit_paisa, period |-> period])
    /\ ret' = "True"

update_budget(category, new_limit_paisa) ==
    LET budgets == read_budgets
        k == FirstBudgetIndex(budgets, category)
    IN  IF k = 0
        THEN /\ ret' = "False"
             /\ UNCHANGED budgets_file
        ELSE /\ budgets_file' = [budgets EXCEPT ![k].limit_paisa = new_limit_paisa]
             /\ ret' = "True"

delete_budget(category) ==
    LET budgets == read_budgets
        kept == SelectSeq(budgets, LAMBDA b : b.category # category)
    IN  IF Len(kept) = Len(budgets)
        THEN /\ ret' = "False"
             /\ UNCHANGED budgets_file
        ELSE /\ budgets_file' = kept
             /\ ret' = "True"

budget_exists_by_period(category) ==
    \E i \in 1..Len(read_budgets) : read_budgets[i].period = category

budget_exists(category) ==
    \E i \in 1..Len(read_budgets) : read_budgets[i].category = category

----------------------------------------------------------------------------
(* budgets.py: calculations *)

get_current_month == today[1]

get_month_from_date(date) == date[1]

filter_current_month_transactions(transactions) ==
    SelectSeq(transactions, LAMBDA t : get_month_from_date(t.date) = get_current_month)

get_current_month_spending(category) ==
    LET expenses == filter_by_type(read_transactions, "expense")
        current_month_expenses == filter_current_month_transactions(expenses)
        category_expenses == filter_by_category(current_month_expenses, category)
    IN  SumAmounts(category_expenses)

calculate_remaining(budget, spent) == budget - spent

calculate_utilization_of_remaining(spent, budget) ==
    IF budget = 0 THEN Zero ELSE Ratio100(budget - spent, budget)

calculate_utilization(spent, budget) ==
    IF budget = 0 THEN Zero ELSE Ratio100(spent, budget)

get_budget_status_strict(utilization) ==
    IF GE(utilization, 100) THEN "Over Budget"
    ELSE IF GT(utilization, 70) THEN "Warning"
    ELSE "OK"

get_budget_status(utilization) ==
    IF GE(utilization, 100) THEN "Over Budget"
    ELSE IF GE(utilization, 70) THEN "Warning"
    ELSE "OK"

get_budget_data ==
    LET budgets == read_budgets IN
    [i \in 1..Len(budgets) |->
        LET category == budgets[i].category
            limit == budgets[i].limit_paisa
            spent == get_current_month_spending(category)
            utilization == calculate_utilization(spent, limit)
        IN  [category |-> category,
             limit_paisa |-> limit,
             spent_paisa |-> spent,
             remaining_paisa |-> calculate_remaining(limit, spent),
             utilization |-> utilization,
             status_text |-> get_budget_status(utilization),
             period |-> budgets[i].period]]

get_overbudget_categories ==
    LET over == SelectSeq(get_budget_data, LAMBDA b : GE(b.utilization, 100))
    IN  [i \in 1..Len(over) |-> over[i].category]

\* the lower end of the warning range left out
get_warning_categories_above_70 ==
    LET warning == SelectSeq(get_budget_data,
                             LAMBDA b : GT(b.utilization, 70) /\ LT(b.utilization, 100))
    IN  [i \in 1..Len(warning) |-> warning[i].category]

get_warning_categories ==
    LET warning == SelectSeq(get_budget_data,
                             LAMBDA b : GE(b.utilization, 70) /\ LT(b.utilization, 100))
    IN  [i \in 1..Len(warning) |-> warning[i].category]

get_healthy_categories ==
    LET healthy == SelectSeq(get_budget_data, LAMBDA b : LT(b.utilization, 70))
    IN  [i \in 1..Len(healthy) |-> healthy[i].category]

RECURSIVE SumLimits(_)
SumLimits(budgets) ==
    IF budgets = <<>> THEN 0
    ELSE Head(budgets).limit_paisa + SumLimits(Tail(budgets))

calculate_total_budget == SumLimits(read_budgets)

RECURSIVE SumSpent(_)
SumSpent(budget_data) ==
    IF budget_data = <<>> THEN 0
    ELSE Head(budget_data).spent_paisa + SumSpent(Tail(budget_data))

calculate_total_spent == SumSpent(get_budget_data)

calculate_overall_utilization ==
    LET total_budget == calculate_total_budget
        total_spent == calculate_total_spent
    IN  IF total_budget = 0 THEN Zero ELSE Ratio100(total_spent, total_budget)

----------------------------------------------------------------------------
(* analytics.py: aggregation *)

filter_transactions_by_month_all(transactions, month) == transactions

filter_transactions_by_month(transactions, month) ==
    SelectSeq(transactions, LAMBDA t : t.date[1] = month)

calculate_total_spending(month) ==
    LET month_transactions == filter_transactions_by_month(read_transactions, month)
    IN  SumAmounts(filter_by_type(month_transactions, "expense"))

\* the division made whatever the total
calculate_category_percentage_unguarded(category_amount, total) ==
    Ratio100(category_amount, total)

calculate_category_percentage(category_amount, total) ==
    IF total = 0 THEN Zero ELSE Ratio100(category_amount, total)

\* Dict[str, int]: a function on the categories that have an expense
get_spending_by_category(month) ==
    LET month_transactions == filter_transactions_by_month(read_transactions, month)
        expenses == filter_by_type(month_transactions, "expense")
        categories == {expenses[i].category : i \in 1..Len(expenses)}
    IN  [cat \in categories |-> SumAmounts(filter_by_category(expenses, cat))]

calculate_total_income_month(month) ==
    LET month_transactions == filter_transactions_by_month(read_transactions, month)
    IN  SumAmounts(filter_by_type(month_transactions, "income"))

calculate_monthly_savings(month) ==
    calculate_total_income_month(month) - calculate_total_spending(month)

calculate_savings_rate(month) ==
    LET income == calculate_total_income_month(month) IN
    IF income = 0 THEN Zero
    ELSE Ratio100(calculate_monthly_savings(month), income)

get_last_month == StrftimeMonth(MinusOneDay(ReplaceDay1(today)))

calculate_category_spending(category, month) ==
    LET month_transactions == filter_transactions_by_month(read_transactions, month)
        expenses == filter_by_type(month_transactions, "expense")
    IN  SumAmounts(filter_by_category(expenses, category))

\* 0.0 whenever the previous month is empty
calculate_month_over_month_change_zero(category) ==
    LET current_month == get_current_month
        last_month == get_last_month
        current == IF category # "" THEN calculate_category_spending(category, current_month)
                   ELSE calculate_total_spending(current_month)
        previous == IF category # "" THEN calculate_category_spending(category, last_month)
                    ELSE calculate_total_spending(last_month)
    IN  IF previous = 0 THEN Zero
        ELSE Ratio100(current - previous, previous)

\* category "" stands for None: both fail the test `if category`
calculate_month_over_month_change(category) ==
    LET current_month == get_current_month
        last_month == get_last_month
        current == IF category # "" THEN calculate_category_spending(category, current_month)
                   ELSE calculate_total_spending(current_month)
        previous == IF category # "" THEN calculate_category_spending(category, last_month)
                    ELSE calculate_total_spending(last_month)
    IN  IF previous = 0 THEN (IF current = 0 THEN Zero ELSE Ratio100(1, 1))
        ELSE Ratio100(current - previous, previous)

\* a change is 0.0 unless the last month's total is positive
compare_with_last_month ==
    LET current_month == get_current_month
        last_month == get_last_month
        current_income == calculate_total_income_month(current_month)
        last_income == calculate_total_income_month(last_month)
        current_expenses == calculate_total_spending(current_month)
        last_expenses == calculate_total_spending(last_month)
        current_savings == calculate_monthly_savings(current_month)
        last_savings == calculate_monthly_savings(last_month)
    IN  [current_income |-> current_income,
         last_income |-> last_income,
         income_change |-> IF last_income > 0
                           THEN Ratio100(current_income - last_income, last_income)
                           ELSE Zero,
         current_expenses |-> current_expenses,
         last_expenses |-> last_expenses,
         expense_change |-> IF last_expenses > 0
                            THEN Ratio100(current_expenses - last_expenses, last_expenses)
                            ELSE Zero,
         current_savings |-> current_savings,
         last_savings |-> last_savings,
         savings_change |-> IF last_savings > 0
                            THEN Ratio100(current_savings - last_savings, last_savings)
                            ELSE Zero]

\* metrics.py
get_previous_month == StrftimeMonth(MinusOneDay(ReplaceDay1(today)))

calculate_balance_metrics ==
    LET current_month == get_current_month
        previous_month == get_previous_month
        current_income == calculate_total_income_month(current_month)
        current_expenses == calculate_total_spending(current_month)
        current_balance == current_income - current_expenses
        previous_income == calculate_total_income_month(previous_month)
        previous_expenses == calculate_total_spending(previous_month)
        previous_balance == previous_income - previous_expenses
    IN  [income |-> current_income,
         expenses |-> current_expenses,
         balance |-> current_balance,
         income_change |-> IF previous_income > 0
                           THEN Ratio100(current_income - previous_income, previous_income)
                           ELSE Zero,
         expense_change |-> IF previous_expenses > 0
                            THEN Ratio100(current_expenses - previous_expenses,
                                          previous_expenses)
                            ELSE Zero,
         balance_change |-> IF previous_balance # 0
                            THEN Ratio100(current_balance - previous_balance,
                                          IF previous_balance < 0 THEN -previous_balance
                                          ELSE previous_balance)
                            ELSE Zero]

\* metrics.py get_trend_data: entry number k of the list is for the month of
\* today - timedelta(days=i * 30), with i = months - k
get_trend_data(months) ==
    LET transactions == read_transactions IN
    [k \in 1..months |->
        LET i == months - k
            month_date == MinusDays(today, i * 30)
            month_str == StrftimeMonth(month_date)
            month_transactions ==
                SelectSeq(transactions, LAMBDA t : t.date[1] = month_str)
        IN  [month |-> <<MonthOf(month_date[1]), YearOf(month_date[1])>>,
             month_key |-> month_str,
             income |-> SumAmounts(filter_by_type(month_transactions, "income")),
             expenses |-> SumAmounts(filter_by_type(month_transactions, "expense"))]]

\* the walk back stopped after its first step
MonthDate_one_back(i) ==
    IF i = 0 THEN today ELSE MinusOneDay(ReplaceDay1(today))

\* month_date of iteration i of get_last_n_months_data: today for i = 0,
\* else the day before the first of the month, taken i times
RECURSIVE MonthDate(_)
MonthDate(i) ==
    IF i = 0 THEN today
    ELSE IF i = 1 THEN MinusOneDay(ReplaceDay1(today))
    ELSE MinusOneDay(ReplaceDay1(MonthDate(i - 1)))

\* Dict[str, List[Dict]]: a function on the month keys
get_last_n_months_data(n) ==
    LET transactions == read_transactions
        keys == {StrftimeMonth(MonthDate(i)) : i \in 0..(n - 1)}
    IN  [month_str \in keys |-> filter_transactions_by_month(transactions, month_str)]

\* "YYYY-MM" < "YYYY-MM" as strings: the year first, then the month
KeyLess(a, b) ==
    \/ YearOf(a) < YearOf(b)
    \/ YearOf(a) = YearOf(b) /\ MonthOf(a) < MonthOf(b)

\* sorted(keys)
RECURSIVE SortedKeys(_)
SortedKeys(keys) ==
    IF keys = {} THEN <<>>
    ELSE LET first == CHOOSE k \in keys : \A other \in keys \ {k} : KeyLess(k, other)
         IN  <<first>> \o SortedKeys(keys \ {first})

\* the last month against the first one in place of the pairwise counts
get_spending_trend_endpoints(category, months) ==
    LET month_data == get_last_n_months_data(months)
        keys == SortedKeys(DOMAIN month_data)
        spending_list == [i \in 1..Len(keys) |->
                            calculate_category_spending(category, keys[i])]
    IN  IF Cardinality(DOMAIN month_data) < 2 THEN "stable"
        ELSE IF Len(spending_list) < 2 THEN "stable"
        ELSE IF spending_list[Len(spending_list)] > spending_list[1] THEN "increasing"
        ELSE IF spending_list[Len(spending_list)] < spending_list[1] THEN "decreasing"
        ELSE "stable"

get_spending_trend(category, months) ==
    LET month_data == get_last_n_months_data(months)
        keys == SortedKeys(DOMAIN month_data)
        spending_list == [i \in 1..Len(keys) |->
                            calculate_category_spending(category, keys[i])]
        increases == Cardinality({i \in 2..Len(spending_list) :
                                    spending_list[i] > spending_list[i - 1]})
        decreases == Cardinality({i \in 2..Len(spending_list) :
                                    spending_list[i] < spending_list[i - 1]})
    IN  IF Cardinality(DOMAIN month_data) < 2 THEN "stable"
        ELSE IF Len(spending_list) < 2 THEN "stable"
        ELSE IF increases > decreases THEN "increasing"
        ELSE IF decreases > increases THEN "decreasing"
        ELSE "stable"

\* sorted(..., key=amount_paisa, reverse=True): stable, descending
RECURSIVE InsertDescending(_, _)
InsertDescending(t, sorted) ==
    IF sorted = <<>> THEN <<t>>
    ELSE IF Head(sorted).amount_paisa >= t.amount_paisa
         THEN <<Head(sorted)>> \o InsertDescending(t, Tail(sorted))
         ELSE <<t>> \o sorted

RECURSIVE SortDescending(_)
SortDescending(transactions) ==
    IF transactions = <<>> THEN <<>>
    ELSE InsertDescending(transactions[Len(transactions)],
            SortDescending(SubSeq(transactions, 1, Len(transactions) - 1)))

\* the mean taken over the other expenses of the month
detect_spending_spikes_of_others ==
    LET month_transactions ==
            filter_transactions_by_month(read_transactions, get_current_month)
        expenses == filter_by_type(month_transactions, "expense")
        total == SumAmounts(expenses)
        count == Len(expenses)
    IN  IF expenses = <<>> THEN <<>>
        ELSE SortDescending(
                SelectSeq(expenses, LAMBDA t :
                    t.amount_paisa * (count - 1) > (total - t.amount_paisa) * 2))

\* a spike is anything above the average
detect_spending_spikes_above_average ==
    LET month_transactions ==
            filter_transactions_by_month(read_transactions, get_current_month)
        expenses == filter_by_type(month_transactions, "expense")
        total == SumAmounts(expenses)
        count == Len(expenses)
    IN  IF expenses = <<>> THEN <<>>
        ELSE SortDescending(
                SelectSeq(expenses, LAMBDA t : t.amount_paisa * count > total))

detect_spending_spikes ==
    LET month_transactions ==
            filter_transactions_by_month(read_transactions, get_current_month)
        expenses == filter_by_type(month_transactions, "expense")
        \* avg = sum / len, threshold = avg * 2
        total == SumAmounts(expenses)
        count == Len(expenses)
    IN  IF expenses = <<>> THEN <<>>
        ELSE SortDescending(
                SelectSeq(expenses, LAMBDA t : t.amount_paisa * count > total * 2))

----------------------------------------------------------------------------
(* analytics.py: financial health score *)

\* the rate itself taken as the points
calculate_savings_score_as_rate ==
    LET rate == calculate_savings_rate(get_current_month) IN
    IF rate.n < 0 THEN 0 ELSE rate.n \div rate.d

calculate_savings_score_strict ==
    LET rate == calculate_savings_rate(get_current_month) IN
    IF GT(rate, 20) THEN 30
    ELSE IF GT(rate, 15) THEN 22
    ELSE IF GT(rate, 10) THEN 15
    ELSE IF GT(rate, 5) THEN 8
    ELSE 0

\* the lowest band begins at a rate of 0
calculate_savings_score_from_zero ==
    LET rate == calculate_savings_rate(get_current_month) IN
    IF GE(rate, 20) THEN 30
    ELSE IF GE(rate, 15) THEN 22
    ELSE IF GE(rate, 10) THEN 15
    ELSE IF GE(rate, 0) THEN 8
    ELSE 0

calculate_savings_score ==
    LET rate == calculate_savings_rate(get_current_month) IN
    IF GE(rate, 20) THEN 30
    ELSE IF GE(rate, 15) THEN 22
    ELSE IF GE(rate, 10) THEN 15
    ELSE IF GE(rate, 5) THEN 8
    ELSE 0

calculate_budget_adherence_score_status_ok ==
    LET budgets == read_budgets
        budget_data == get_budget_data
        ok_count == Cardinality({i \in 1..Len(budget_data) :
                                    budget_data[i].status_text = "OK"})
        total_count == Len(budget_data)
        ok_percentage == Ratio100(ok_count, total_count)
    IN  IF budgets = <<>> THEN 15
        ELSE IF budget_data = <<>> THEN 15
        ELSE IF total_count = 0 THEN 15
        ELSE IF EQ(ok_percentage, 100) THEN 25
        ELSE IF GE(ok_percentage, 75) THEN 18
        ELSE IF GE(ok_percentage, 50) THEN 12
        ELSE IF GE(ok_percentage, 25) THEN 6
        ELSE 0

calculate_budget_adherence_score ==
    LET budgets == read_budgets
        budget_data == get_budget_data
        ok_count == Cardinality({i \in 1..Len(budget_data) :
                                    LT(budget_data[i].utilization, 100)})
        total_count == Len(budget_data)
        ok_percentage == Ratio100(ok_count, total_count)
    IN  IF budgets = <<>> THEN 15
        ELSE IF budget_data = <<>> THEN 15
        ELSE IF total_count = 0 THEN 15
        ELSE IF EQ(ok_percentage, 100) THEN 25
        ELSE IF GE(ok_percentage, 75) THEN 18
        ELSE IF GE(ok_percentage, 50) THEN 12
        ELSE IF GE(ok_percentage, 25) THEN 6
        ELSE 0

calculate_balance_score ==
    LET savings == calculate_monthly_savings(get_current_month) IN
    IF savings > 0 THEN 25
    ELSE IF savings = 0 THEN 15
    ELSE 0

calculate_consistency_score ==
    LET spike_count == Len(detect_spending_spikes) IN
    IF spike_count = 0 THEN 20
    ELSE IF spike_count = 1 THEN 15
    ELSE IF spike_count = 2 THEN 10
    ELSE 5

calculate_overall_health_score ==
    calculate_savings_score + calculate_budget_adherence_score
        + calculate_balance_score + calculate_consistency_score

get_health_interpretation(score) ==
    IF score >= 80 THEN "Excellent"
    ELSE IF score >= 60 THEN "Good"
    ELSE IF score >= 40 THEN "Fair"
    ELSE "Poor"

get_financial_health_metrics_rating_strict(score) ==
    IF score > 80 THEN "Excellent"
    ELSE IF score > 60 THEN "Good"
    ELSE IF score > 40 THEN "Fair"
    ELSE "Poor"

\* dashboard/metrics.py: the rating branch of get_financial_health_metrics
get_financial_health_metrics_rating(score) ==
    IF score >= 80 THEN "Excellent"
    ELSE IF score >= 60 THEN "Good"
    ELSE IF score >= 40 THEN "Fair"
    ELSE "Poor"

----------------------------------------------------------------------------
(* smart_assistant.py: goals file operations *)

GoalLineOk(line) == 6 + CountPipes(line.name) = 6

\* line.strip() removes the whitespace that begins the line, which is the
\* whitespace that begins the name
ParseGoal(line) ==
    [name |-> lstrip(line.name),
     target_paisa |-> line.target_paisa,
     current_paisa |-> line.current_paisa,
     deadline |-> line.deadline,
     created_date |-> line.created_date,
     goal_type |-> line.goal_type]

RECURSIVE ReadGoalLines(_)
ReadGoalLines(lines) ==
    IF lines = <<>> THEN <<>>
    ELSE IF GoalLineOk(Head(lines))
         THEN <<ParseGoal(Head(lines))>> \o ReadGoalLines(Tail(lines))
         ELSE ReadGoalLines(Tail(lines))

read_goals == ReadGoalLines(goals_file)

\* the position of the first goal whose name matches ignoring case, 0 if none
FirstGoalIndex(goals, goal_name) ==
    IF \E i \in 1..Len(goals) : lower(goals[i].name) = lower(goal_name)
    THEN CHOOSE i \in 1..Len(goals) :
            /\ lower(goals[i].name) = lower(goal_name)
            /\ \A j \in 1..(i - 1) : lower(goals[j].name) # lower(goal_name)
    ELSE 0

write_goal(name, target_paisa, deadline, goal_type, current_paisa) ==
    LET existing_goals == read_goals IN
    IF \E i \in 1..Len(existing_goals) :
            lower(existing_goals[i].name) = lower(name)
    THEN /\ ret' = "False"
         /\ UNCHANGED goals_file
    ELSE /\ goals_file' = Append(goals_file,
                [name |-> name, target_paisa |-> target_paisa,
                 current_paisa |-> current_paisa, deadline |-> deadline,
                 created_date |-> today, goal_type |-> goal_type])
         /\ ret' = "True"

CapAtTarget_uncapped(current_paisa, target_paisa) == current_paisa

\* current_paisa += additional_amount, capped at target_paisa
CapAtTarget(current_paisa, target_paisa) ==
    IF current_paisa > target_paisa THEN target_paisa ELSE current_paisa

update_goal_progress(goal_name, additional_amount) ==
    LET goals == read_goals
        k == FirstGoalIndex(goals, goal_name)
    IN  IF k = 0
        THEN /\ ret' = "False"
             /\ UNCHANGED goals_file
        ELSE /\ goals_file' = [goals EXCEPT ![k].current_paisa =
                    CapAtTarget(goals[k].current_paisa + additional_amount,
                                goals[k].target_paisa)]
             /\ ret' = "True"

delete_goal(goal_name) ==
    LET goals == read_goals
        kept == SelectSeq(goals, LAMBDA g : lower(g.name) # lower(goal_name))
    IN  IF Len(kept) = Len(goals)
        THEN /\ ret' = "False"
             /\ UNCHANGED goals_file
        ELSE /\ goals_file' = kept
             /\ ret' = "True"

\* Optional[Dict]: None is <<>>, a goal is the one-element sequence of it
get_goal_by_name(name) ==
    LET goals == read_goals
        k == FirstGoalIndex(goals, name)
    IN  IF k = 0 THEN <<>> ELSE <<goals[k]>>

calculate_goal_progress(goal) ==
    IF goal.target_paisa = 0 THEN Ratio100(1, 1)
    ELSE LET progress == Ratio100(goal.current_paisa, goal.target_paisa)
         IN  IF GT(progress, 100) THEN Ratio100(1, 1) ELSE progress

----------------------------------------------------------------------------
(* smart_assistant.py: goal calculations.  datetime.now() is today's date  *)
(* and a time of day; at_midnight says that this time is 00:00:00 exactly. *)

\* (deadline_date - now).days: a started day is not counted
calculate_days_until_deadline(deadline, at_midnight) ==
    DaysBetween(today, deadline) - (IF at_midnight THEN 0 ELSE 1)

calculate_months_until_deadline(deadline, at_midnight) ==
    Max(1, calculate_days_until_deadline(deadline, at_midnight) \div 30)

\* the division rounded up
calculate_required_monthly_savings_rounded_up(goal, at_midnight) ==
    LET remaining == goal.target_paisa - goal.current_paisa
        months_left == calculate_months_until_deadline(goal.deadline, at_midnight)
    IN  IF remaining <= 0 THEN 0
        ELSE IF months_left <= 0 THEN remaining
        ELSE (remaining + months_left - 1) \div months_left

calculate_required_monthly_savings(goal, at_midnight) ==
    LET remaining == goal.target_paisa - goal.current_paisa
        months_left == calculate_months_until_deadline(goal.deadline, at_midnight)
    IN  IF remaining <= 0 THEN 0
        ELSE IF months_left <= 0 THEN remaining
        ELSE remaining \div months_left

\* (now - created).days: the time of day does not change it
calculate_months_since_creation(created_date) ==
    Max(0, DaysBetween(created_date, today) \div 30)

calculate_months_between(start_date, end_date) ==
    Max(1, DaysBetween(start_date, end_date) \div 30)

\* the months passed counted from the first day on
is_goal_on_track_started_month(goal) ==
    LET progress == calculate_goal_progress(goal)
        months_passed == calculate_months_since_creation(goal.created_date) + 1
        months_total == calculate_months_between(goal.created_date, goal.deadline)
    IN  IF months_total = 0 THEN GE(progress, 100)
        ELSE RatLE(Ratio100(months_passed, months_total), progress)

is_goal_on_track(goal) ==
    LET progress == calculate_goal_progress(goal)
        months_passed == calculate_months_since_creation(goal.created_date)
        months_total == calculate_months_between(goal.created_date, goal.deadline)
    IN  IF months_total = 0 THEN GE(progress, 100)
        ELSE RatLE(Ratio100(months_passed, months_total), progress)

----------------------------------------------------------------------------
(* smart_assistant.py: alerts.  An alert is its type, category, priority   *)
(* and message; the message is the tuple of its wording and of the values  *)
(* formatted into it (percentages, which are formatted rounded, are left   *)
(* out).                                                                    *)

Alert(type, category, message, priority) ==
    [type |-> type, category |-> category, message |-> message, priority |-> priority]

\* the three thresholds tested with > only
RECURSIVE BudgetAlertsOf_strict(_)
BudgetAlertsOf_strict(budget_data) ==
    IF budget_data = <<>> THEN <<>>
    ELSE LET budget == Head(budget_data)
             utilization == budget.utilization
             category == budget.category
         IN  (IF GT(utilization, 100)
              THEN <<Alert("critical", "budget", <<"budget exceeded", category>>, 1)>>
              ELSE IF GT(utilization, 90)
              THEN <<Alert("critical", "budget", <<"of budget - Critical!", category>>, 1)>>
              ELSE IF GT(utilization, 80)
              THEN <<Alert("warning", "budget", <<"of budget - Watch closely", category>>, 2)>>
              ELSE <<>>)
             \o BudgetAlertsOf_strict(Tail(budget_data))

RECURSIVE BudgetAlertsOf(_)
BudgetAlertsOf(budget_data) ==
    IF budget_data = <<>> THEN <<>>
    ELSE LET budget == Head(budget_data)
             utilization == budget.utilization
             category == budget.category
         IN  (IF GT(utilization, 100)
              THEN <<Alert("critical", "budget", <<"budget exceeded", category>>, 1)>>
              ELSE IF GE(utilization, 90)
              THEN <<Alert("critical", "budget", <<"of budget - Critical!", category>>, 1)>>
              ELSE IF GE(utilization, 80)
              THEN <<Alert("warning", "budget", <<"of budget - Watch closely", category>>, 2)>>
              ELSE <<>>)
             \o BudgetAlertsOf(Tail(budget_data))

check_budget_alerts == BudgetAlertsOf(get_budget_data)

RECURSIVE LargeAlertsOf(_, _)
LargeAlertsOf(expenses, monthly_income) ==
    IF expenses = <<>> THEN <<>>
    ELSE LET expense == Head(expenses) IN
         \* amount > monthly_income * 0.20
         (IF expense.amount_paisa * 100 > monthly_income * 20
          THEN <<Alert("warning", "transaction",
                    <<"Large transaction detected", expense.description,
                      expense.amount_paisa>>, 2)>>
          ELSE <<>>)
         \o LargeAlertsOf(Tail(expenses), monthly_income)

check_large_transactions ==
    LET current_month == get_current_month
        monthly_income == calculate_total_income_month(current_month)
        month_transactions == filter_transactions_by_month(read_transactions, current_month)
        expenses == filter_by_type(month_transactions, "expense")
    IN  IF monthly_income = 0 THEN <<>> ELSE LargeAlertsOf(expenses, monthly_income)

\* the keys of category_counts in the order they were inserted
RECURSIVE FirstOccurrences(_, _)
FirstOccurrences(transactions, seen) ==
    IF transactions = <<>> THEN <<>>
    ELSE IF Head(transactions).category \in seen
         THEN FirstOccurrences(Tail(transactions), seen)
         ELSE <<Head(transactions).category>>
                \o FirstOccurrences(Tail(transactions),
                                     seen \cup {Head(transactions).category})

\* a spree only from the fourth transaction on
RECURSIVE SpreeAlertsOf_over_three(_, _)
SpreeAlertsOf_over_three(categories, today_transactions) ==
    IF categories = <<>> THEN <<>>
    ELSE LET category == Head(categories)
             count == Len(filter_by_category(today_transactions, category))
         IN  (IF count > 3
              THEN <<Alert("warning", "spending_spree",
                        <<"transactions today - Spending spree detected!",
                          count, category>>, 2)>>
              ELSE <<>>)
             \o SpreeAlertsOf_over_three(Tail(categories), today_transactions)

RECURSIVE SpreeAlertsOf(_, _)
SpreeAlertsOf(categories, today_transactions) ==
    IF categories = <<>> THEN <<>>
    ELSE LET category == Head(categories)
             count == Len(filter_by_category(today_transactions, category))
         IN  (IF count >= 3
              THEN <<Alert("warning", "spending_spree",
                        <<"transactions today - Spending spree detected!",
                          count, category>>, 2)>>
              ELSE <<>>)
             \o SpreeAlertsOf(Tail(categories), today_transactions)

check_spending_spikes ==
    LET today_transactions ==
            SelectSeq(read_transactions,
                      LAMBDA t : t.date = today /\ t.type = "expense")
    IN  SpreeAlertsOf(FirstOccurrences(today_transactions, {}), today_transactions)

\* a rate of exactly 5 still counts as low
check_savings_alerts_at_five ==
    LET current_month == get_current_month
        savings == calculate_monthly_savings(current_month)
        savings_rate == calculate_savings_rate(current_month)
    IN  IF savings < 0
        THEN <<Alert("critical", "savings", <<"Negative savings this month", -savings>>, 1)>>
        ELSE IF ~GT(savings_rate, 5)
        THEN <<Alert("warning", "savings", <<"Low savings rate">>, 2)>>
        ELSE <<>>

check_savings_alerts ==
    LET current_month == get_current_month
        savings == calculate_monthly_savings(current_month)
        savings_rate == calculate_savings_rate(current_month)
    IN  IF savings < 0
        THEN <<Alert("critical", "savings", <<"Negative savings this month", -savings>>, 1)>>
        ELSE IF LT(savings_rate, 5)
        THEN <<Alert("warning", "savings", <<"Low savings rate">>, 2)>>
        ELSE <<>>

\* the deadline counts as near from 0 days left
RECURSIVE GoalAlertsOf_from_zero(_, _)
GoalAlertsOf_from_zero(goals, at_midnight) ==
    IF goals = <<>> THEN <<>>
    ELSE LET goal == Head(goals)
             progress == calculate_goal_progress(goal)
             days_left == calculate_days_until_deadline(goal.deadline, at_midnight)
         IN  (IF GE(progress, 100)
              THEN <<Alert("success", "goal", <<"completed", goal.name>>, 4)>>
              ELSE IF days_left < 0
              THEN <<Alert("warning", "goal",
                        <<"deadline passed", goal.name, -days_left>>, 2)>>
              ELSE (IF days_left <= 30 /\ days_left >= 0
                    THEN <<Alert("info", "goal",
                              <<"deadline in", goal.name, days_left>>, 3)>>
                    ELSE <<>>)
                   \o
                   (IF ~is_goal_on_track(goal) /\ days_left > 0
                    THEN <<Alert("warning", "goal", <<"behind schedule", goal.name>>, 2)>>
                    ELSE <<>>))
             \o GoalAlertsOf_from_zero(Tail(goals), at_midnight)

RECURSIVE GoalAlertsOf(_, _)
GoalAlertsOf(goals, at_midnight) ==
    IF goals = <<>> THEN <<>>
    ELSE LET goal == Head(goals)
             progress == calculate_goal_progress(goal)
             days_left == calculate_days_until_deadline(goal.deadline, at_midnight)
         IN  (IF GE(progress, 100)
              THEN <<Alert("success", "goal", <<"completed", goal.name>>, 4)>>
              ELSE IF days_left < 0
              THEN <<Alert("warning", "goal",
                        <<"deadline passed", goal.name, -days_left>>, 2)>>
              ELSE (IF days_left <= 30 /\ days_left > 0
                    THEN <<Alert("info", "goal",
                              <<"deadline in", goal.name, days_left>>, 3)>>
                    ELSE <<>>)
                   \o
                   (IF ~is_goal_on_track(goal) /\ days_left > 0
                    THEN <<Alert("warning", "goal", <<"behind schedule", goal.name>>, 2)>>
                    ELSE <<>>))
             \o GoalAlertsOf(Tail(goals), at_midnight)

check_goal_alerts(at_midnight) == GoalAlertsOf(read_goals, at_midnight)

\* an alert takes its place before the alerts of its own priority
RECURSIVE InsertByPriority_before_equal(_, _)
InsertByPriority_before_equal(alert, sorted) ==
    IF sorted = <<>> THEN <<alert>>
    ELSE IF sorted[Len(sorted)].priority < alert.priority
         THEN Append(sorted, alert)
         ELSE Append(InsertByPriority_before_equal(alert,
                        SubSeq(sorted, 1, Len(sorted) - 1)), sorted[Len(sorted)])

\* list.sort(key=priority) is stable: an alert takes its place after the
\* alerts of its own priority that came before it
RECURSIVE InsertByPriority(_, _)
InsertByPriority(alert, sorted) ==
    IF sorted = <<>> THEN <<alert>>
    ELSE IF sorted[Len(sorted)].priority <= alert.priority
         THEN Append(sorted, alert)
         ELSE Append(InsertByPriority(alert, SubSeq(sorted, 1, Len(sorted) - 1)),
                     sorted[Len(sorted)])

RECURSIVE SortByPriority(_)
SortByPriority(alerts) ==
    IF alerts = <<>> THEN <<>>
    ELSE InsertByPriority(alerts[Len(alerts)],
            SortByPriority(SubSeq(alerts, 1, Len(alerts) - 1)))

get_active_alerts(at_midnight) ==
    LET all_alerts == check_budget_alerts \o check_large_transactions
                        \o check_spending_spikes \o check_savings_alerts
                        \o check_goal_alerts(at_midnight)
    IN  SortByPriority(all_alerts)

----------------------------------------------------------------------------
(* Operations, with the sets their inputs are drawn from as parameters *)

Descriptions == {<<"d">>}

AllDates == {<<m, 1>> : m \in 1..MaxMonth}

\* transactions.py add_expense: get_amount, get_category, get_description,
\* get_date, then write_transaction
add_expense(max, amounts, categories, dates) ==
    /\ Len(transactions_file) < max
    /\ \E amount_paisa \in amounts, category \in categories,
          description \in Descriptions, date \in dates :
            write_transaction(date, "expense", category, amount_paisa, description)
    /\ UNCHANGED <<budgets_file, goals_file, today, call>>

add_income(max, amounts, categories, dates) ==
    /\ Len(transactions_file) < max
    /\ \E amount_paisa \in amounts, category \in categories,
          description \in Descriptions, date \in dates :
            write_transaction(date, "income", category, amount_paisa, description)
    /\ UNCHANGED <<budgets_file, goals_file, today, call>>

\* transactions.py edit_transaction: one field of the selected transaction is
\* replaced, then update_transaction
edit_transaction(amounts, dates) ==
    /\ read_transactions # <<>>
    /\ \E index \in 0..(Len(read_transactions) - 1) :
        LET trans == read_transactions[index + 1] IN
        \/ \E new_amount \in amounts :
                update_transaction(index, [trans EXCEPT !.amount_paisa = new_amount])
        \/ \E new_date \in dates :
                update_transaction(index, [trans EXCEPT !.date = new_date])
    /\ UNCHANGED <<budgets_file, goals_file, today, call>>

\* delete_transaction on any index, in range or one step out of it
delete_transaction_call ==
    /\ \E index \in (-1)..Len(read_transactions) : delete_transaction(index)
    /\ UNCHANGED <<budgets_file, goals_file, today, call>>

\* budgets.py set_budget: update when the category has a budget (and the
\* user confirms), write_budget with period "monthly" otherwise
set_budget_choice(category, amount_paisa) ==
    IF budget_exists(category)
    THEN update_budget(category, amount_paisa)
    ELSE write_budget(category, amount_paisa, "monthly")

set_budget(categories, limits) ==
    /\ \E category \in categories, amount_paisa \in limits :
            set_budget_choice(category, amount_paisa)
    /\ UNCHANGED <<transactions_file, goals_file, today, call>>

update_budget_call(categories, limits) ==
    /\ \E category \in categories, new_limit_paisa \in limits :
            update_budget(category, new_limit_paisa)
    /\ UNCHANGED <<transactions_file, goals_file, today, call>>

delete_budget_call(categories) ==
    /\ \E category \in categories : delete_budget(category)
    /\ UNCHANGED <<transactions_file, goals_file, today, call>>

\* smart_assistant.py create_goal: write_goal with current_paisa defaulted to 0
create_goal(names, targets, deadlines, goal_types) ==
    /\ Len(goals_file) < MaxGoals
    /\ \E name \in names, target_paisa \in targets, deadline \in deadlines,
          goal_type \in goal_types :
            write_goal(name, target_paisa, deadline, goal_type, 0)
    /\ UNCHANGED <<transactions_file, budgets_file, today, call>>

update_goal_progress_call(names, additions) ==
    /\ \E goal_name \in names, additional_amount \in additions :
            update_goal_progress(goal_name, additional_amount)
    /\ UNCHANGED <<transactions_file, budgets_file, today, call>>

delete_goal_call(names) ==
    /\ \E goal_name \in names : delete_goal(goal_name)
    /\ UNCHANGED <<transactions_file, budgets_file, today, call>>

\* update_transaction on any index, in range or one step out of it
update_transaction_call(amounts) ==
    /\ \E index \in (-1)..Len(read_transactions), amount_paisa \in amounts :
            update_transaction(index,
                [date |-> today, type |-> "expense", category |-> "Food",
                 amount_paisa |-> amount_paisa, description |-> <<"d">>])
    /\ UNCHANGED <<budgets_file, goals_file, today, call>>

get_goal_by_name_call(names) ==
    /\ \E name \in names :
            call' = [fn |-> "get_goal_by_name", name |-> name,
                     result |-> get_goal_by_name(name)]
    /\ UNCHANGED <<transactions_file, budgets_file, goals_file, today, ret>>

\* the calendar moves on to the first day of the next month
AdvanceMonth ==
    /\ today[1] < MaxMonth
    /\ today' = <<today[1] + 1, 1>>
    /\ UNCHANGED <<transactions_file, budgets_file, goals_file, ret, call>>

\* the calendar moves on to the last day of the month
AdvanceToMonthEnd ==
    /\ today[2] < DaysInMonth(today[1])
    /\ today' = <<today[1], DaysInMonth(today[1])>>
    /\ UNCHANGED <<transactions_file, budgets_file, goals_file, ret, call>>

Init ==
    /\ transactions_file = <<>>
    /\ budgets_file = <<>>
    /\ goals_file = <<>>
    /\ today = <<1, 1>>
    /\ ret = "None"
    /\ call = [fn |-> "none"]

----------------------------------------------------------------------------
(* Budget specification: two expense categories, one of which is also an   *)
(* income category, amounts and limits that put utilization below 70, at   *)
(* 70, between 70 and 100, at 100 and above it.                            *)

BudgetCategories == {"Food", "Other"}
BudgetAmounts == {3, 7}
BudgetLimits == {0, 10}

BudgetDates == {<<1, 1>>, <<2, 1>>}     \* this month and another one

BudgetAddExpense == add_expense(MaxTx, BudgetAmounts, BudgetCategories, BudgetDates)
BudgetAddIncome == add_income(MaxTx, {7}, {"Other"}, BudgetDates)
BudgetEditTransaction == edit_transaction(BudgetAmounts, BudgetDates)
BudgetDeleteTransaction == delete_transaction_call
BudgetSetBudget == set_budget(BudgetCategories, BudgetLimits)
BudgetUpdateBudget == update_budget_call(BudgetCategories, BudgetLimits)
BudgetDeleteBudget == delete_budget_call(BudgetCategories)

NextBudget ==
    \/ BudgetAddExpense
    \/ BudgetAddIncome
    \/ BudgetEditTransaction
    \/ BudgetDeleteTransaction
    \/ BudgetSetBudget
    \/ BudgetUpdateBudget
    \/ BudgetDeleteBudget

SpecBudget == Init /\ [][NextBudget]_vars

----------------------------------------------------------------------------
(* Score specification: one income of 20 and expenses of 1, 16 and 17 put  *)
(* the month's savings rate at 20, 15, 10 and 5 percent and around them; an *)
(* expense of 16 beside two of 1 is a spike.  Transactions are entered     *)
(* under today's date and the calendar moves on.                           *)

ScoreExpenseAmounts == {1, 16, 17}
ScoreIncomeAmounts == {20}
ScoreLimits == {20}

ScoreAddExpense == add_expense(MaxScoreTx, ScoreExpenseAmounts, {"Food"}, {today})
ScoreAddIncome == add_income(MaxScoreTx, ScoreIncomeAmounts, {"Salary"}, {today})
ScoreDeleteTransaction == delete_transaction_call
ScoreSetBudget == set_budget({"Food"}, ScoreLimits)
ScoreDeleteBudget == delete_budget_call({"Food"})

NextScore ==
    \/ ScoreAddExpense
    \/ ScoreAddIncome
    \/ ScoreDeleteTransaction
    \/ ScoreSetBudget
    \/ ScoreDeleteBudget
    \/ AdvanceMonth

SpecScore == Init /\ [][NextScore]_vars

----------------------------------------------------------------------------
(* Adherence specification: four budgeted categories, so that 25, 50 and  *)
(* 75 percent of the budgets can be under their limit.  An expense of 3    *)
(* is over a limit of 1 and at 75% of a limit of 4.                        *)

AdhCategories == {"Food", "Transport", "Shopping", "Bills"}

AdhAddExpense == add_expense(MaxAdhTx, {3}, AdhCategories, {today})
AdhSetBudget ==
    \/ set_budget(AdhCategories \ {"Bills"}, {1})
    \/ set_budget({"Bills"}, {4})
AdhDeleteBudget == delete_budget_call(AdhCategories)

NextAdherence ==
    \/ AdhAddExpense
    \/ AdhSetBudget
    \/ AdhDeleteBudget

SpecAdherence == Init /\ [][NextAdherence]_vars

----------------------------------------------------------------------------
(* Rating specification: the two rating functions applied to every score *)

InitRating ==
    /\ transactions_file = <<>>
    /\ budgets_file = <<>>
    /\ goals_file = <<>>
    /\ today = <<1, 1>>
    /\ ret = "None"
    /\ call \in {[fn |-> "pending", score |-> s] : s \in 0..MaxScore}

RateScore ==
    /\ call.fn = "pending"
    /\ call' = [fn |-> "rating", score |-> call.score,
                interpretation |-> get_health_interpretation(call.score),
                rating |-> get_financial_health_metrics_rating(call.score)]
    /\ UNCHANGED <<transactions_file, budgets_file, goals_file, today, ret>>

NextRating == RateScore

SpecRating == InitRating /\ [][NextRating]_vars

----------------------------------------------------------------------------
(* Goals specification: names that differ in case only, a name that begins *)
(* with a blank, a name that holds the field separator.                    *)

GoalNames == {<<"a">>, <<"A">>, <<" ", "a">>, <<"b">>, <<"a", "|", "b">>}
GoalTargets == {0, 3}
GoalAdditions == {0, 2}
GoalDeadlines == {<<2, 1>>}
GOAL_TYPES == {"Custom Goal"}

GoalsCreateGoal == create_goal(GoalNames, GoalTargets, GoalDeadlines, GOAL_TYPES)
GoalsUpdateGoal == update_goal_progress_call(GoalNames, GoalAdditions)
GoalsDeleteGoal == delete_goal_call(GoalNames)

NextGoals ==
    \/ GoalsCreateGoal
    \/ GoalsUpdateGoal
    \/ GoalsDeleteGoal

SpecGoals == Init /\ [][NextGoals]_vars

----------------------------------------------------------------------------
(* Missing-record specification: every store is filled and emptied, and     *)
(* each update and delete is called on records that are there and on        *)
(* records that are not.                                                    *)

ErrAmounts == {7}
ErrCategories == {"Food", "Other"}
ErrLimits == {0}
ErrNames == {<<"A">>, <<"b">>}      \* "A" is the stored "a" ignoring case
ErrTargets == {3}
ErrAdditions == {2}

ErrAddExpense == add_expense(MaxErrTx, {3}, {"Food"}, {today})
ErrUpdateTransaction == update_transaction_call(ErrAmounts)
ErrDeleteTransaction == delete_transaction_call
ErrSetBudget == set_budget({"Food"}, {10})
ErrUpdateBudget == update_budget_call(ErrCategories, ErrLimits)
ErrDeleteBudget == delete_budget_call(ErrCategories)
ErrCreateGoal == create_goal({<<"a">>}, ErrTargets, GoalDeadlines, GOAL_TYPES)
ErrUpdateGoal == update_goal_progress_call(ErrNames, ErrAdditions)
ErrDeleteGoal == delete_goal_call(ErrNames)
ErrGetGoalByName == get_goal_by_name_call(ErrNames)

NextErrors ==
    \/ ErrAddExpense
    \/ ErrUpdateTransaction
    \/ ErrDeleteTransaction
    \/ ErrSetBudget
    \/ ErrUpdateBudget
    \/ ErrDeleteBudget
    \/ ErrCreateGoal
    \/ ErrUpdateGoal
    \/ ErrDeleteGoal
    \/ ErrGetGoalByName

SpecErrors == Init /\ [][NextErrors]_vars

----------------------------------------------------------------------------
(* Round-trip specification: a ledger that holds transactions of some       *)
(* months, a month without any, transactions appended to that month and     *)
(* then deleted again.  `call` holds what was read before the first append. *)

RtMonths == {1, 2}
RtKinds == {<<"expense", "Food">>, <<"expense", "Transport">>, <<"income", "Salary">>}
RtDescriptions == {<<"d">>, <<"x", "|", "y">>}

\* the three aggregates of a month
Aggregates(month) ==
    [income |-> calculate_total_income_month(month),
     spending |-> calculate_total_spending(month),
     by_category |-> get_spending_by_category(month)]

\* a transaction of some month enters the ledger, its description ends in a blank
RtAddBefore ==
    /\ call.fn = "none"
    /\ Len(transactions_file) < MaxRtBefore
    /\ \E trans_type \in TRANSACTION_TYPES, month \in RtMonths :
            write_transaction(<<month, 1>>, trans_type,
                IF trans_type = "expense" THEN "Food" ELSE "Salary", 5, <<"d", " ">>)
    /\ UNCHANGED <<budgets_file, goals_file, today, call>>

\* a month without transactions is chosen and the ledger is read
RtBegin ==
    /\ call.fn = "none"
    /\ \E month \in RtMonths :
        /\ filter_transactions_by_month(read_transactions, month) = <<>>
        /\ call' = [fn |-> "round_trip", month |-> month,
                    before |-> read_transactions,
                    aggregates |-> [m \in RtMonths |-> Aggregates(m)],
                    appended |-> 0, removed |-> 0]
    /\ UNCHANGED <<transactions_file, budgets_file, goals_file, today, ret>>

RtWrite ==
    /\ call.fn = "round_trip"
    /\ call.removed = 0
    /\ call.appended < MaxRtN
    /\ \E kind \in RtKinds, amount_paisa \in {3}, description \in RtDescriptions :
            write_transaction(<<call.month, 1>>, kind[1], kind[2], amount_paisa, description)
    /\ call' = [call EXCEPT !.appended = @ + 1]
    /\ UNCHANGED <<budgets_file, goals_file, today>>

\* one of the appended transactions is deleted: they are read after the
\* transactions that were there before
RtDelete ==
    /\ call.fn = "round_trip"
    /\ \E index \in Len(call.before)..(Len(read_transactions) - 1) :
            delete_transaction(index)
    /\ call' = [call EXCEPT !.removed = @ + 1]
    /\ UNCHANGED <<budgets_file, goals_file, today>>

NextRoundTrip ==
    \/ RtAddBefore
    \/ RtBegin
    \/ RtWrite
    \/ RtDelete

SpecRoundTrip == Init /\ [][NextRoundTrip]_vars

----------------------------------------------------------------------------
(* Zero-denominator specification: budgets whose limits are 0, months with  *)
(* expenses and no income, and the two-argument ratio functions applied to  *)
(* every numerator and denominator, 0 included.                             *)

ZeroCategories == {"Food", "Transport"}
ZeroLimits == {0, 4}

ZeroAddExpense == add_expense(MaxZeroTx, {3}, {"Food"}, {today})
ZeroAddIncome == add_income(MaxZeroTx, {5}, {"Salary"}, {today})
ZeroSetBudget == set_budget(ZeroCategories, ZeroLimits)
ZeroDeleteBudget == delete_budget_call(ZeroCategories)

ZeroCallRatios ==
    /\ \E numerator \in (-1)..MaxRatioArg, denominator \in 0..MaxRatioArg :
            call' = [fn |-> "ratios", numerator |-> numerator,
                     denominator |-> denominator,
                     percentage |-> calculate_category_percentage(numerator, denominator),
                     utilization |-> calculate_utilization(numerator, denominator)]
    /\ UNCHANGED <<transactions_file, budgets_file, goals_file, today, ret>>

NextZero ==
    \/ ZeroAddExpense
    \/ ZeroAddIncome
    \/ ZeroSetBudget
    \/ ZeroDeleteBudget
    \/ ZeroCallRatios

SpecZero == Init /\ [][NextZero]_vars

----------------------------------------------------------------------------
(* Month-over-month specification: expenses of 400000 and 500000 in two    *)
(* categories, entered under today's date while the calendar moves on.      *)

MomAmounts == {400000, 500000}
MomCategories == {"Food", "Transport"}

MomAddExpense == add_expense(MaxMomTx, MomAmounts, MomCategories, {today})
MomAddIncome == add_income(MaxMomTx, {500000}, {"Salary"}, {today})
MomDeleteTransaction == delete_transaction_call

NextMom ==
    \/ MomAddExpense
    \/ MomAddIncome
    \/ MomDeleteTransaction
    \/ AdvanceMonth
    \/ AdvanceToMonthEnd

SpecMom == Init /\ [][NextMom]_vars

----------------------------------------------------------------------------
(* Trend specification: today is in January, the months looked back on are *)
(* in the year before; expenses of 3 and 7 are dated in any of them.       *)

TrendAmounts == {3, 7}
TrendDates == {<<m, 1>> : m \in (2 - MaxTrendMonths)..1}

TrendAddExpense == add_expense(MaxTrendTx, TrendAmounts, {"Food"}, TrendDates)
TrendAddIncome == add_income(MaxTrendTx, {9}, {"Salary"}, {today})

NextTrend ==
    \/ TrendAddExpense
    \/ TrendAddIncome
    \/ AdvanceToMonthEnd

SpecTrend == Init /\ [][NextTrend]_vars

----------------------------------------------------------------------------
(* Spike specification: up to five expenses of a month.  100000 beside     *)
(* four of 20000 is above twice the mean; 400000 beside two of 100000 is   *)
(* exactly twice the mean; 400000 and 410000 beside three of 20000 are     *)
(* both above it.                                                           *)

SpikeAmounts == {20000, 100000, 400000, 410000}

SpikeAddExpense == add_expense(MaxSpikeTx, SpikeAmounts, {"Food"}, {today})

NextSpikes ==
    \/ SpikeAddExpense
    \/ AdvanceMonth

SpecSpikes == Init /\ [][NextSpikes]_vars

----------------------------------------------------------------------------
(* Last-months specification: get_last_n_months_data on every day of       *)
(* fourteen months (January 2024 to February 2025: a leap February, a      *)
(* common one, two Januaries), over a ledger that holds two transactions   *)
(* in every month from before the earliest month looked back on.           *)

CalDates ==
    {date \in (1..MaxCalMonth) \X (1..31) : date[2] <= DaysInMonth(date[1])}

MonthlyLedger ==
    [i \in 1..(2 * (MaxCalMonth + MaxLastN)) |->
        [date |-> <<(1 - MaxLastN) + ((i - 1) \div 2), 1 + ((i - 1) % 2) * 27>>,
         type |-> IF i % 2 = 0 THEN "expense" ELSE "income",
         category |-> IF i % 2 = 0 THEN "Food" ELSE "Salary",
         amount_paisa |-> i,
         description |-> <<"d">>]]

InitLastN ==
    /\ transactions_file = MonthlyLedger
    /\ budgets_file = <<>>
    /\ goals_file = <<>>
    /\ today \in CalDates
    /\ ret = "None"
    /\ call = [fn |-> "none"]

LastNCall ==
    /\ call.fn = "none"
    /\ \E n \in 0..MaxLastN :
            call' = [fn |-> "get_last_n_months_data", n |-> n,
                     result |-> get_last_n_months_data(n)]
    /\ UNCHANGED <<transactions_file, budgets_file, goals_file, today, ret>>

NextLastN == LastNCall

SpecLastN == InitLastN /\ [][NextLastN]_vars

----------------------------------------------------------------------------
(* Goal-calculation specification: a goal of 6 (or of 0) with nothing, a   *)
(* third, half or all of it saved, created on one of the first days of     *)
(* January 2024, looked at on the first and last days of the following     *)
(* months, so that 29, 30, 59, 60 and 61 days lie between the dates.        *)

GoalMathDates ==
    {date \in (1..MaxGoalMonth) \X {1, 2, 29, 30, 31} : date[2] <= DaysInMonth(date[1])}

\* the goals create_goal and update_goal can have stored by today
GoalMathGoals ==
    {goal \in [target_paisa : {0, 6}, current_paisa : {0, 2, 3, 6},
               deadline : GoalMathDates, created_date : {<<1, 1>>, <<1, 2>>}] :
        /\ goal.current_paisa <= goal.target_paisa
        /\ DaysBetween(goal.created_date, goal.deadline) >= 0
        /\ DaysBetween(goal.created_date, today) >= 0}

InitGoalMath ==
    /\ transactions_file = <<>>
    /\ budgets_file = <<>>
    /\ goals_file = <<>>
    /\ today \in GoalMathDates
    /\ ret = "None"
    /\ call \in {[fn |-> "pending", goal |-> goal, at_midnight |-> at_midnight] :
                    goal \in GoalMathGoals, at_midnight \in BOOLEAN}

GoalMathCall ==
    /\ call.fn = "pending"
    /\ call' = [fn |-> "goal_math", goal |-> call.goal, at_midnight |-> call.at_midnight,
                required |-> calculate_required_monthly_savings(call.goal, call.at_midnight),
                on_track |-> is_goal_on_track(call.goal),
                progress |-> calculate_goal_progress(call.goal)]
    /\ UNCHANGED <<transactions_file, budgets_file, goals_file, today, ret>>

NextGoalMath == GoalMathCall

SpecGoalMath == InitGoalMath /\ [][NextGoalMath]_vars

----------------------------------------------------------------------------
(* Alert specification: Food expenses of 3 and 4 entered today, an income  *)
(* of 10, a Food budget of 10 or 11 and two goals of 3 due at the end of   *)
(* the month.  Three expenses are a spree; beside the income each is a     *)
(* large transaction; without it the savings are negative; 9 or 10 spent   *)
(* is above 80%, above 90% or at 100% of the budget.                       *)

AlertAmounts == {3, 4}
AlertLimits == {10, 11}
AlertNames == {<<"a">>, <<"b">>}

AlertAddExpense == add_expense(MaxAlertTx, AlertAmounts, {"Food"}, {today})
AlertAddIncome == add_income(MaxAlertTx, {10}, {"Salary"}, {today})
AlertSetBudget == set_budget({"Food"}, AlertLimits)
AlertCreateGoal == create_goal(AlertNames, {3}, {<<1, 31>>}, GOAL_TYPES)
AlertUpdateGoal == update_goal_progress_call(AlertNames, {3})

NextAlerts ==
    \/ AlertAddExpense
    \/ AlertAddIncome
    \/ AlertSetBudget
    \/ AlertCreateGoal
    \/ AlertUpdateGoal

SpecAlerts == Init /\ [][NextAlerts]_vars

----------------------------------------------------------------------------
(* Tier specification: two budgeted categories with a limit of 10 or 0 and *)
(* expenses of 2, 7 and 8 entered today, which put a budget at 70, 80, 90  *)
(* and 100 percent, between them and above.                                *)

TierCategories == {"Food", "Other"}
TierAmounts == {2, 7, 8}
TierLimits == {0, 10}

TierAddExpense == add_expense(MaxTierTx, TierAmounts, TierCategories, {today})
TierSetBudget == set_budget(TierCategories, TierLimits)

NextTiers ==
    \/ TierAddExpense
    \/ TierSetBudget

SpecTiers == Init /\ [][NextTiers]_vars

----------------------------------------------------------------------------
(* Spree specification: expenses of two categories entered under today's   *)
(* date, on the first day of the month and, once the calendar has moved    *)
(* on, on its last day.                                                    *)

SpreeCategories == {"Food", "Other"}
SpreeAmounts == {3, 4}

SpreeAddExpense == add_expense(MaxSpreeTx, SpreeAmounts, SpreeCategories, {today})

NextSpree ==
    \/ SpreeAddExpense
    \/ AdvanceToMonthEnd

SpecSpree == Init /\ [][NextSpree]_vars

----------------------------------------------------------------------------
(* Goal alert specification: two goals of 4, saved in steps of 2, with a   *)
(* deadline after the day they are created: the end of January, the first  *)
(* and the last day of February, the middle of March.  The calendar moves  *)
(* to the end of the month and to the next month, so a deadline is more    *)
(* than 30 days away, 30 days, one day, less than a day away and passed.   *)

GoalAlertNames == {<<"a">>, <<"b">>}
GoalAlertDeadlines == {<<1, 31>>, <<2, 1>>, <<2, 29>>, <<3, 15>>}

\* create_goal refuses a deadline that is not after now
GoalAlertCreateGoal ==
    create_goal(GoalAlertNames, {4},
                {deadline \in GoalAlertDeadlines : DaysBetween(today, deadline) > 0},
                GOAL_TYPES)
GoalAlertUpdateGoal == update_goal_progress_call(GoalAlertNames, {2})

NextGoalAlerts ==
    \/ GoalAlertCreateGoal
    \/ GoalAlertUpdateGoal
    \/ AdvanceToMonthEnd
    \/ AdvanceMonth

SpecGoalAlerts == Init /\ [][NextGoalAlerts]_vars

----------------------------------------------------------------------------
(* Trend-data specification: get_trend_data on every day of the fourteen   *)
(* months, over the ledger with two transactions in every month.           *)

TrendDataCall ==
    /\ call.fn = "none"
    /\ \E months \in 0..MaxLastN :
            call' = [fn |-> "get_trend_data", months |-> months,
                     result |-> get_trend_data(months)]
    /\ UNCHANGED <<transactions_file, budgets_file, goals_file, today, ret>>

NextTrendData == TrendDataCall

SpecTrendData == InitLastN /\ [][NextTrendData]_vars

----------------------------------------------------------------------------
(* Consistency specification: up to seven expenses of 1 and 100 entered    *)
(* under today's date, in two months.  Three of 100 beside four of 1 are   *)
(* three spikes; three of 100 beside three of 1 are none.                  *)

ConsAmounts == {1, 100}

ConsAddExpense == add_expense(MaxConsTx, ConsAmounts, {"Food"}, {today})

NextConsistency ==
    \/ ConsAddExpense
    \/ AdvanceMonth

SpecConsistency == Init /\ [][NextConsistency]_vars

----------------------------------------------------------------------------
(* Coupling specification: the same expenses in one month, beside an       *)
(* income of 101, which an expense of 100 and one of 1 use up, and a Food  *)
(* budget of 1.                                                            *)

ConsAddIncome == add_income(MaxConsTx, {101}, {"Salary"}, {today})
ConsSetBudget == set_budget({"Food"}, {1})

NextCoupling ==
    \/ ConsAddExpense
    \/ ConsAddIncome
    \/ ConsSetBudget

SpecCoupling == Init /\ [][NextCoupling]_vars

----------------------------------------------------------------------------
(* Claims on the budget specification *)

\* what the current month's well-formed expense lines of a category add up to
RECURSIVE SpentIn(_, _, _)
SpentIn(lines, category, month) ==
    IF lines = <<>> THEN 0
    ELSE (IF /\ Head(lines).type = "expense"
             /\ Head(lines).category = category
             /\ Head(lines).date[1] = month
             /\ CountPipes(Head(lines).description) = 0
          THEN Head(lines).amount_paisa ELSE 0)
         + SpentIn(Tail(lines), category, month)

\* the status the tiers give to spent against limit (utilization 0 for limit 0)
TierOf(spent, limit) ==
    IF limit = 0 THEN "OK"
    ELSE IF spent * 100 < 70 * limit THEN "OK"
    ELSE IF spent * 100 < 100 * limit THEN "Warning"
    ELSE "Over Budget"

TierRank(status) ==
    IF status = "OK" THEN 0 ELSE IF status = "Warning" THEN 1 ELSE 2

\* C6: every stored budget gets status OK when its utilization (current-month
\* expense of its category over its limit, times 100) is below 70, Warning
\* from 70 to below 100, Over Budget from 100 on.
C6_StatusTiers ==
    /\ Len(get_budget_data) = Len(budgets_file)
    /\ \A i \in 1..Len(get_budget_data) :
        LET b == get_budget_data[i]
            spent == SpentIn(transactions_file, budgets_file[i].category, today[1])
        IN  /\ b.category = budgets_file[i].category
            /\ b.spent_paisa = spent
            /\ b.status_text = TierOf(spent, budgets_file[i].limit_paisa)

\* a budget sits exactly at 70% and is a Warning, another is below 70% and OK
C6_Witness ==
    /\ \E i \in 1..Len(get_budget_data) :
        /\ get_budget_data[i].limit_paisa > 0
        /\ get_budget_data[i].spent_paisa * 100 = 70 * get_budget_data[i].limit_paisa
        /\ get_budget_data[i].status_text = "Warning"
    /\ \E i \in 1..Len(get_budget_data) :
        /\ get_budget_data[i].spent_paisa > 0
        /\ get_budget_data[i].status_text = "OK"

\* the step appends one current-month expense line of the category and leaves
\* the budgets and the date alone
AppendsExpenseIn(category) ==
    /\ Len(transactions_file') = Len(transactions_file) + 1
    /\ SubSeq(transactions_file', 1, Len(transactions_file)) = transactions_file
    /\ transactions_file'[Len(transactions_file')].type = "expense"
    /\ transactions_file'[Len(transactions_file')].category = category
    /\ transactions_file'[Len(transactions_file')].date[1] = today[1]
    /\ budgets_file' = budgets_file
    /\ today' = today

\* C7: appending a current-month expense in a budget's category, the limit
\* unchanged, never decreases the budget's utilization and never moves its
\* status backwards in the order OK, Warning, Over Budget.
C7_TieringMonotone ==
    [][\A i \in 1..Len(get_budget_data) :
        AppendsExpenseIn(get_budget_data[i].category) =>
            /\ RatLE(get_budget_data[i].utilization, get_budget_data'[i].utilization)
            /\ TierRank(get_budget_data[i].status_text)
                    <= TierRank(get_budget_data'[i].status_text)]_vars

\* the last line is a current-month expense that took its budget from OK to
\* Over Budget
C7_Witness ==
    /\ transactions_file # <<>>
    /\ ret = "True"
    /\ LET last == transactions_file[Len(transactions_file)]
           before == SubSeq(transactions_file, 1, Len(transactions_file) - 1)
       IN  /\ last.type = "expense"
           /\ last.date[1] = today[1]
           /\ \E i \in 1..Len(get_budget_data) :
                /\ get_budget_data[i].category = last.category
                /\ get_budget_data[i].limit_paisa > 0
                /\ SpentIn(before, last.category, today[1]) > 0
                /\ TierOf(SpentIn(before, last.category, today[1]),
                          get_budget_data[i].limit_paisa) = "OK"
                /\ get_budget_data[i].status_text = "Over Budget"

C8_OnePerCategory ==
    \A i, j \in 1..Len(read_budgets) :
        read_budgets[i].category = read_budgets[j].category => i = j

C8_Upsert ==
    \A category \in BudgetCategories, amount_paisa \in BudgetLimits :
        (budget_exists(category) /\ set_budget_choice(category, amount_paisa)) =>
            /\ Len(read_budgets') = Len(read_budgets)
            /\ \A i \in 1..Len(read_budgets) :
                /\ read_budgets'[i].category = read_budgets[i].category
                /\ read_budgets'[i].limit_paisa =
                        IF read_budgets[i].category = category
                        THEN amount_paisa ELSE read_budgets[i].limit_paisa

\* C8: the budget store holds at most one budget per category after any
\* sequence of set_budget, update_budget and delete_budget, and set_budget on
\* a category that has a budget replaces its limit without adding a record.
C8_AtMostOneBudget == []C8_OnePerCategory /\ [][C8_Upsert]_vars

\* both categories have a budget, after a call that succeeded
C8_Witness ==
    /\ Len(read_budgets) = 2
    /\ read_budgets[1].category # read_budgets[2].category
    /\ ret = "True"
    /\ \E i \in 1..2 : read_budgets[i].limit_paisa = 0
    /\ \E i \in 1..2 : read_budgets[i].limit_paisa = 10

----------------------------------------------------------------------------
(* Claims on the score specification *)

\* what the well-formed lines of a type dated in a month add up to
RECURSIVE SumLines(_, _, _)
SumLines(lines, trans_type, month) ==
    IF lines = <<>> THEN 0
    ELSE (IF /\ Head(lines).type = trans_type
             /\ Head(lines).date[1] = month
             /\ CountPipes(Head(lines).description) = 0
          THEN Head(lines).amount_paisa ELSE 0)
         + SumLines(Tail(lines), trans_type, month)

MonthIncome == SumLines(transactions_file, "income", today[1])
MonthExpense == SumLines(transactions_file, "expense", today[1])

\* C1: the health score is the sum of the savings, budget-adherence, balance
\* and consistency components, each within its cap (30, 25, 25, 20), and the
\* total lies in 0..100.
C1_ScoreIsCappedSum ==
    /\ calculate_overall_health_score =
            calculate_savings_score + calculate_budget_adherence_score
                + calculate_balance_score + calculate_consistency_score
    /\ calculate_savings_score \in 0..30
    /\ calculate_budget_adherence_score \in 0..25
    /\ calculate_balance_score \in 0..25
    /\ calculate_consistency_score \in 0..20
    /\ calculate_overall_health_score \in 0..100

\* every component is away from its value on an empty ledger
C1_Witness ==
    /\ calculate_savings_score = 15
    /\ calculate_budget_adherence_score = 25
    /\ calculate_balance_score = 25
    /\ calculate_consistency_score = 15
    /\ calculate_overall_health_score = 80

NoCurrentMonthTransactions ==
    \A i \in 1..Len(transactions_file) : transactions_file[i].date[1] # today[1]

\* C2: with no transaction in the current month and no budget stored the
\* score is 50 = 0 + 15 + 15 + 20, whatever other months hold.
C2_EmptyMonthScore ==
    (NoCurrentMonthTransactions /\ budgets_file = <<>>) =>
        /\ calculate_savings_score = 0
        /\ calculate_budget_adherence_score = 15
        /\ calculate_balance_score = 15
        /\ calculate_consistency_score = 20
        /\ calculate_overall_health_score = 50

\* last month holds an income and an expense, this month nothing
C2_Witness ==
    /\ NoCurrentMonthTransactions
    /\ budgets_file = <<>>
    /\ \E i, j \in 1..Len(transactions_file) :
        /\ transactions_file[i].type = "income"
        /\ transactions_file[j].type = "expense"
    /\ calculate_overall_health_score = 50

\* the points of the savings rate (income - expense) / income * 100
SavingsStep(income, expense) ==
    IF income = 0 THEN 0
    ELSE IF (income - expense) * 100 >= 20 * income THEN 30
    ELSE IF (income - expense) * 100 >= 15 * income THEN 22
    ELSE IF (income - expense) * 100 >= 10 * income THEN 15
    ELSE IF (income - expense) * 100 >= 5 * income THEN 8
    ELSE 0

\* C3: the savings component is the step function of the current month's
\* savings rate with inclusive boundaries 20, 15, 10 and 5 (30, 22, 15, 8,
\* else 0), the rate being 0 when the income is 0.
C3_SavingsStep ==
    calculate_savings_score = SavingsStep(MonthIncome, MonthExpense)

\* a savings rate of exactly 20% scores 30
C3_Witness ==
    /\ MonthIncome = 20
    /\ MonthExpense = 16
    /\ calculate_savings_score = 30

----------------------------------------------------------------------------
(* Claim on the adherence specification *)

UnderLimit(budget) ==
    \/ budget.limit_paisa = 0
    \/ SpentIn(transactions_file, budget.category, today[1]) * 100
            < 100 * budget.limit_paisa

UnderLimitCount == Cardinality({i \in 1..Len(budgets_file) : UnderLimit(budgets_file[i])})

AdherenceStep(ok_count, total_count) ==
    IF total_count = 0 THEN 15
    ELSE IF ok_count = total_count THEN 25
    ELSE IF ok_count * 100 >= 75 * total_count THEN 18
    ELSE IF ok_count * 100 >= 50 * total_count THEN 12
    ELSE IF ok_count * 100 >= 25 * total_count THEN 6
    ELSE 0

\* C4: the budget-adherence component is 15 without budgets; otherwise, p
\* being the percentage of budgets with utilization below 100, it is 25 for
\* p = 100, 18 for p >= 75, 12 for p >= 50, 6 for p >= 25, else 0.
C4_AdherenceStep ==
    calculate_budget_adherence_score =
        AdherenceStep(UnderLimitCount, Len(budgets_file))

\* three of four budgets are under their limit, one of them at 75%
C4_Witness ==
    /\ Len(budgets_file) = 4
    /\ UnderLimitCount = 3
    /\ \E i \in 1..4 : get_budget_data[i].status_text = "Warning"
    /\ calculate_budget_adherence_score = 18

----------------------------------------------------------------------------
(* Claim on the rating specification *)

RatingBand(score) ==
    IF score >= 80 THEN "Excellent"
    ELSE IF score >= 60 THEN "Good"
    ELSE IF score >= 40 THEN "Fair"
    ELSE "Poor"

\* C5: a score is rated Excellent from 80, Good from 60, Fair from 40 and
\* Poor below, and get_health_interpretation and get_financial_health_metrics
\* give the same rating.
C5_RatingBands ==
    call.fn = "rating" =>
        /\ call.interpretation = RatingBand(call.score)
        /\ call.rating = call.interpretation

C5_Witness ==
    /\ call.fn = "rating"
    /\ call.score = 80
    /\ call.interpretation = "Excellent"
    /\ call.rating = "Excellent"

----------------------------------------------------------------------------
(* Claims on the goals specification *)

C9_Bounds ==
    \A i \in 1..Len(read_goals) :
        /\ 0 <= read_goals[i].current_paisa
        /\ read_goals[i].current_paisa <= read_goals[i].target_paisa

C9_Clamp ==
    \A goal_name \in GoalNames, additional_amount \in GoalAdditions :
        LET goals == read_goals
            k == FirstGoalIndex(goals, goal_name)
        IN  (/\ k # 0
             /\ goals[k].current_paisa + additional_amount > goals[k].target_paisa
             /\ update_goal_progress(goal_name, additional_amount))
            => /\ Len(read_goals') = Len(goals)
               /\ read_goals'[k].current_paisa = goals[k].target_paisa
               /\ EQ(calculate_goal_progress(read_goals'[k]), 100)

\* C9: every stored goal has 0 <= current <= target; an increment that would
\* take current beyond target leaves current = target and the progress at 100.
C9_GoalClamped == []C9_Bounds /\ [][C9_Clamp]_vars

\* increments of 2 have brought a goal to its target of 3: the last was capped
C9_Witness ==
    /\ ret = "True"
    /\ \E i \in 1..Len(read_goals) :
        /\ read_goals[i].target_paisa = 3
        /\ read_goals[i].current_paisa = 3
        /\ EQ(calculate_goal_progress(read_goals[i]), 100)

C10_NoDuplicateNames ==
    \A i, j \in 1..Len(read_goals) :
        lower(read_goals[i].name) = lower(read_goals[j].name) => i = j

C10_RejectsDuplicate ==
    \A name \in GoalNames, target_paisa \in GoalTargets,
       deadline \in GoalDeadlines, goal_type \in GOAL_TYPES :
        (/\ \E i \in 1..Len(read_goals) : lower(read_goals[i].name) = lower(name)
         /\ write_goal(name, target_paisa, deadline, goal_type, 0))
        => /\ ret' = "False"
           /\ goals_file' = goals_file

\* C10: no two stored goals have names equal ignoring case, and write_goal
\* with a name matching a stored goal ignoring case returns False and leaves
\* the goal store unchanged.
C10_GoalNamesUnique == []C10_NoDuplicateNames /\ [][C10_RejectsDuplicate]_vars

----------------------------------------------------------------------------
(* Claim on the missing-record specification *)

NoGoalNamed(name) ==
    \A i \in 1..Len(read_goals) : lower(read_goals[i].name) # lower(name)

IndexOutOfRange(index) == index < 0 \/ index > Len(read_transactions) - 1

StoresUnchanged ==
    /\ transactions_file' = transactions_file
    /\ budgets_file' = budgets_file
    /\ goals_file' = goals_file

UpdatedData(amount_paisa) ==
    [date |-> today, type |-> "expense", category |-> "Food",
     amount_paisa |-> amount_paisa, description |-> <<"d">>]

C11_FailedCalls ==
    /\ \A name \in ErrNames, additional_amount \in ErrAdditions :
        (NoGoalNamed(name) /\ update_goal_progress(name, additional_amount))
            => (ret' = "False" /\ StoresUnchanged)
    /\ \A name \in ErrNames :
        (NoGoalNamed(name) /\ delete_goal(name))
            => (ret' = "False" /\ StoresUnchanged)
    /\ \A category \in ErrCategories, new_limit_paisa \in ErrLimits :
        (~budget_exists(category) /\ update_budget(category, new_limit_paisa))
            => (ret' = "False" /\ StoresUnchanged)
    /\ \A category \in ErrCategories :
        (~budget_exists(category) /\ delete_budget(category))
            => (ret' = "False" /\ StoresUnchanged)
    /\ \A index \in (-1)..(MaxErrTx + 1), amount_paisa \in ErrAmounts :
        (IndexOutOfRange(index) /\ update_transaction(index, UpdatedData(amount_paisa)))
            => (ret' = "False" /\ StoresUnchanged)
    /\ \A index \in (-1)..(MaxErrTx + 1) :
        (IndexOutOfRange(index) /\ delete_transaction(index))
            => (ret' = "False" /\ StoresUnchanged)

C11_NoneForUnknown ==
    \A name \in ErrNames :
        (NoGoalNamed(name) /\ get_goal_by_name_call({name})) => call'.result = <<>>

\* C11: update_goal_progress and delete_goal on a name no stored goal has,
\* update_budget and delete_budget on a category without budget, and
\* update_transaction and delete_transaction on an index outside 0..len-1
\* return False and leave the three stores unchanged; get_goal_by_name on an
\* unknown name returns None.
C11_MissingRecord == [][C11_FailedCalls /\ C11_NoneForUnknown]_vars

\* all three stores hold a record, the last store call failed and the last
\* lookup was for a name that no goal has
C11_Witness ==
    /\ transactions_file # <<>>
    /\ budgets_file # <<>>
    /\ goals_file # <<>>
    /\ ret = "False"
    /\ call.fn = "get_goal_by_name"
    /\ NoGoalNamed(call.name)
    /\ call.result = <<>>

----------------------------------------------------------------------------
(* Claim on the round-trip specification *)

\* every appended transaction that can be read has been deleted again
RtAllRemoved ==
    /\ call.fn = "round_trip"
    /\ call.appended > 0
    /\ Len(read_transactions) = Len(call.before)

\* C12: from a month without transactions, appending N transactions dated in
\* it and deleting those N again brings the month's income total, expense
\* total and per-category breakdown back to zero and leaves every other
\* transaction and the aggregates of every other month as they were.
C12_RoundTrip ==
    RtAllRemoved =>
        /\ calculate_total_income_month(call.month) = 0
        /\ calculate_total_spending(call.month) = 0
        /\ DOMAIN get_spending_by_category(call.month) = {}
        /\ read_transactions = call.before
        /\ \A m \in RtMonths : Aggregates(m) = call.aggregates[m]

\* two transactions were appended beside an older one and both deleted
C12_Witness ==
    /\ RtAllRemoved
    /\ call.before # <<>>
    /\ call.appended = 2
    /\ call.removed = 2

----------------------------------------------------------------------------
(* Claim on the zero-denominator specification *)

\* a result that is the float 0.0: numerator 0 over a denominator that is not 0
IsZero(r) == r.n = 0 /\ r.d # 0

RECURSIVE LimitsOfLines(_)
LimitsOfLines(lines) ==
    IF lines = <<>> THEN 0
    ELSE Head(lines).limit_paisa + LimitsOfLines(Tail(lines))

\* C13: a zero denominator gives 0 for every numerator:
\* calculate_category_percentage(p, 0), calculate_utilization(spent, 0),
\* calculate_overall_utilization when the budget limits add up to 0, and
\* calculate_savings_rate when the month has no income, with or without
\* expenses.
C13_ZeroDenominator ==
    /\ (call.fn = "ratios" /\ call.denominator = 0) =>
            (IsZero(call.percentage) /\ IsZero(call.utilization))
    /\ LimitsOfLines(budgets_file) = 0 => IsZero(calculate_overall_utilization)
    /\ MonthIncome = 0 => IsZero(calculate_savings_rate(today[1]))

\* both ratio functions were given a numerator over 0, a budget with limit 0
\* has spending against it, and the month has expenses and no income
C13_Witness ==
    /\ call.fn = "ratios"
    /\ call.denominator = 0
    /\ call.numerator > 0
    /\ budgets_file # <<>>
    /\ LimitsOfLines(budgets_file) = 0
    /\ calculate_total_spent > 0
    /\ MonthIncome = 0
    /\ MonthExpense > 0

----------------------------------------------------------------------------
(* Claim on the month-over-month specification *)

\* the expenses of a month, of one category or (category "") of all
ExpenseOf(category, month) ==
    IF category = "" THEN SumLines(transactions_file, "expense", month)
    ELSE SpentIn(transactions_file, category, month)

MomAsClaimed(category) ==
    LET current == ExpenseOf(category, today[1])
        previous == ExpenseOf(category, today[1] - 1)
        change == calculate_month_over_month_change(category)
    IN  /\ (previous = 0 /\ current = 0) => IsZero(change)
        /\ (previous = 0 /\ current # 0) => (change.d # 0 /\ EQ(change, 100))
        /\ previous # 0 =>
                (change.d = previous /\ change.n = (current - previous) * 100)
        /\ (current = 500000 /\ previous = 400000) => EQ(change, 25)

\* C14: calculate_month_over_month_change is 0 when the current and the
\* previous month's spending are both 0, 100 when only the previous is 0,
\* and (current - previous) / previous * 100 otherwise; 500000 after 400000
\* gives 25.
C14_MonthOverMonth ==
    \A category \in MomCategories \cup {""} : MomAsClaimed(category)

\* 500000 spent this month after 400000 last month, all of it on one
\* category, nothing on the other
C14_Witness ==
    /\ \E category \in MomCategories :
        /\ ExpenseOf(category, today[1]) = 500000
        /\ ExpenseOf(category, today[1] - 1) = 400000
    /\ ExpenseOf("", today[1]) = 500000
    /\ ExpenseOf("", today[1] - 1) = 400000
    /\ EQ(calculate_month_over_month_change(""), 25)

----------------------------------------------------------------------------
(* Claim on the trend specification *)

\* what a category spent in each of the last n months, oldest first
SpendingSeries(category, n) ==
    [i \in 1..n |-> SpentIn(transactions_file, category, today[1] - n + i)]

Rises(series) == Cardinality({i \in 2..Len(series) : series[i] > series[i - 1]})
Falls(series) == Cardinality({i \in 2..Len(series) : series[i] < series[i - 1]})

TrendOf(series) ==
    IF Len(series) < 2 THEN "stable"
    ELSE IF Rises(series) > Falls(series) THEN "increasing"
    ELSE IF Falls(series) > Rises(series) THEN "decreasing"
    ELSE "stable"

\* C15: get_spending_trend over a category's spending of the last months in
\* chronological order is increasing when more consecutive pairs rise than
\* fall, decreasing when more fall than rise, stable on a tie, and stable
\* when fewer than 2 months are asked for.
C15_SpendingTrend ==
    \A category \in {"Food", "Transport"}, months \in 0..MaxTrendMonths :
        get_spending_trend(category, months) = TrendOf(SpendingSeries(category, months))

\* over three months one rise and one fall tie although the last month is
\* above the first; over the last two the fall decides
C15_Witness ==
    /\ Rises(SpendingSeries("Food", 3)) = 1
    /\ Falls(SpendingSeries("Food", 3)) = 1
    /\ SpendingSeries("Food", 3)[3] > SpendingSeries("Food", 3)[1]
    /\ get_spending_trend("Food", 3) = "stable"
    /\ get_spending_trend("Food", 2) = "decreasing"
    /\ get_spending_trend("Food", 1) = "stable"

----------------------------------------------------------------------------
(* Claim on the spike specification *)

\* the positions of the current month's expense lines
MonthExpenseLines ==
    {i \in 1..Len(transactions_file) :
        /\ transactions_file[i].type = "expense"
        /\ transactions_file[i].date[1] = today[1]
        /\ CountPipes(transactions_file[i].description) = 0}

\* those whose amount is above twice the mean: amount > 2 * total / count
SpikeLines ==
    {i \in MonthExpenseLines :
        transactions_file[i].amount_paisa * Cardinality(MonthExpenseLines)
            > 2 * MonthExpense}

\* C16: detect_spending_spikes returns exactly the current month's expenses
\* whose amount is strictly above twice the mean amount of all the month's
\* expenses (the candidate included), by amount descending, and nothing
\* when the month has no expense; 100000 beside four of 20000 is a spike.
C16_Spikes ==
    LET spikes == detect_spending_spikes IN
    /\ Len(spikes) = Cardinality(SpikeLines)
    /\ \A amount \in SpikeAmounts :
            Cardinality({k \in 1..Len(spikes) : spikes[k].amount_paisa = amount})
                = Cardinality({i \in SpikeLines :
                                transactions_file[i].amount_paisa = amount})
    /\ \A k \in 1..Len(spikes) :
            /\ spikes[k].type = "expense"
            /\ spikes[k].date[1] = today[1]
    /\ \A k \in 1..(Len(spikes) - 1) :
            spikes[k].amount_paisa >= spikes[k + 1].amount_paisa
    /\ MonthExpenseLines = {} => spikes = <<>>
    /\ (/\ Cardinality(MonthExpenseLines) = 5
        /\ MonthExpense = 180000
        /\ \E i \in MonthExpenseLines : transactions_file[i].amount_paisa = 100000)
        => (Len(spikes) = 1 /\ spikes[1].amount_paisa = 100000)

\* 400000 entered before 410000, beside three of 20000: two spikes, the
\* larger one first
C16_Witness ==
    /\ Cardinality(MonthExpenseLines) = 5
    /\ \E i, j \in MonthExpenseLines :
        /\ i < j
        /\ transactions_file[i].amount_paisa = 400000
        /\ transactions_file[j].amount_paisa = 410000
    /\ Len(detect_spending_spikes) = 2
    /\ detect_spending_spikes[1].amount_paisa = 410000
    /\ detect_spending_spikes[2].amount_paisa = 400000

----------------------------------------------------------------------------
(* Claim on the last-months specification *)

LinesOfMonth(month) ==
    SelectSeq(transactions_file, LAMBDA line : line.date[1] = month)

\* C17: get_last_n_months_data(n) has, on every day of every month, exactly
\* n month keys, the current month and the n - 1 months before it, each
\* mapped to the transactions dated in that month.
C17_LastNMonths ==
    call.fn = "get_last_n_months_data" =>
        /\ DOMAIN call.result = {today[1] - i : i \in 0..(call.n - 1)}
        /\ Cardinality(DOMAIN call.result) = call.n
        /\ \A month \in DOMAIN call.result :
                call.result[month] = LinesOfMonth(month)

\* three months back from 31 March 2024: March, the leap February, January
C17_Witness ==
    /\ call.fn = "get_last_n_months_data"
    /\ today = <<3, 31>>
    /\ call.n = 3
    /\ DOMAIN call.result = {1, 2, 3}
    /\ Len(call.result[2]) = 2

----------------------------------------------------------------------------
(* Claims on the goal-calculation specification *)

\* the days from today's date to the deadline, and those of them that
\* datetime counts: the day that has begun is left out
CalendarDaysToDeadline == DaysBetween(today, call.goal.deadline)
DaysToDeadline == CalendarDaysToDeadline - (IF call.at_midnight THEN 0 ELSE 1)
MonthsRemaining == IF DaysToDeadline \div 30 >= 1 THEN DaysToDeadline \div 30 ELSE 1

\* C18: calculate_required_monthly_savings is 0 when current >= target and
\* floor((target - current) / months_remaining) otherwise, with
\* months_remaining = max(1, days_to_deadline // 30); it lies between 0 and
\* target - current and is all of target - current when the deadline is
\* fewer than 60 days away or has passed.
C18_RequiredMonthly ==
    call.fn = "goal_math" =>
        LET target == call.goal.target_paisa
            current == call.goal.current_paisa
        IN  /\ current >= target => call.required = 0
            /\ current < target =>
                    /\ call.required = (target - current) \div MonthsRemaining
                    /\ call.required * MonthsRemaining <= target - current
                    /\ (call.required + 1) * MonthsRemaining > target - current
            /\ 0 <= call.required
            /\ call.required <= target - current
            /\ CalendarDaysToDeadline < 60 => call.required = target - current

\* 60 days before the deadline at midnight sharp a remaining 3 takes two
\* months of 1: the division rounds down
C18_Witness ==
    /\ call.fn = "goal_math"
    /\ call.at_midnight
    /\ CalendarDaysToDeadline = 60
    /\ call.goal.target_paisa = 6
    /\ call.goal.current_paisa = 3
    /\ call.required = 1

\* the days since the goal was created and from its creation to its
\* deadline, in months of 30 days
MonthsElapsed ==
    IF DaysBetween(call.goal.created_date, today) \div 30 >= 0
    THEN DaysBetween(call.goal.created_date, today) \div 30 ELSE 0
MonthsTotal ==
    IF DaysBetween(call.goal.created_date, call.goal.deadline) \div 30 >= 1
    THEN DaysBetween(call.goal.created_date, call.goal.deadline) \div 30 ELSE 1

\* C19: is_goal_on_track is true exactly when the goal's progress percentage
\* is at least months_elapsed / months_total * 100 (months_elapsed =
\* max(0, days since creation // 30), months_total = max(1, days from
\* creation to deadline // 30)); a goal created less than 30 days ago is on
\* track with any progress, zero included.
C19_OnTrack ==
    call.fn = "goal_math" =>
        /\ call.on_track =
                (call.progress.n * MonthsTotal >= MonthsElapsed * 100 * call.progress.d)
        /\ DaysBetween(call.goal.created_date, today) < 30 => call.on_track

\* half saved when half of the months have passed is on track
C19_Witness ==
    /\ call.fn = "goal_math"
    /\ call.goal.target_paisa = 6
    /\ call.goal.current_paisa = 3
    /\ MonthsElapsed = 1
    /\ MonthsTotal = 2
    /\ call.on_track

----------------------------------------------------------------------------
(* Claim on the alert specification *)

\* the alerts in the order they are generated
GeneratedAlerts(at_midnight) ==
    check_budget_alerts \o check_large_transactions \o check_spending_spikes
        \o check_savings_alerts \o check_goal_alerts(at_midnight)

OfPriority(alerts, priority) ==
    SelectSeq(alerts, LAMBDA alert : alert.priority = priority)

\* C20: get_active_alerts returns the alerts by non-decreasing priority, and
\* those of one priority in the order they were generated: budget, large
\* transaction, spending spree, savings, goal.
C20_AlertOrder ==
    \A at_midnight \in BOOLEAN :
        LET alerts == get_active_alerts(at_midnight) IN
        /\ Len(alerts) = Len(GeneratedAlerts(at_midnight))
        /\ \A k \in 1..(Len(alerts) - 1) : alerts[k].priority <= alerts[k + 1].priority
        /\ \A priority \in 1..4 :
                OfPriority(alerts, priority)
                    = OfPriority(GeneratedAlerts(at_midnight), priority)

\* alerts of four groups have priority 2, two of them large transactions;
\* a critical budget alert goes before them, and the goal that was
\* completed first goes after the goal that is due
C20_Witness ==
    LET alerts == get_active_alerts(FALSE) IN
    /\ Len(alerts) = 8
    /\ alerts[1].category = "budget"
    /\ alerts[2].category = "transaction"
    /\ alerts[3].category = "transaction"
    /\ alerts[4].category = "transaction"
    /\ alerts[2].message # alerts[4].message
    /\ alerts[5].category = "spending_spree"
    /\ alerts[6].category = "savings"
    /\ alerts[7].priority = 3
    /\ alerts[8].priority = 4
    /\ GeneratedAlerts(FALSE)[7].priority = 4

----------------------------------------------------------------------------
(* Claim on the tier specification *)

\* the alerts of check_budget_alerts that name a category and have a priority
BudgetAlertsFor(category, priority) ==
    SelectSeq(check_budget_alerts,
              LAMBDA a : a.message[2] = category /\ a.priority = priority)

\* C21: for each stored budget check_budget_alerts has exactly one alert of
\* priority 1 when spent / limit * 100 >= 90, exactly one of priority 2 when
\* it is >= 80 and < 90, and none below 80; a budget that is Over Budget
\* has the priority 1 alert and a budget that is OK has none.
C21_BudgetTiers ==
    LET alerts == check_budget_alerts
        data == get_budget_data
    IN  /\ \A k \in 1..Len(alerts) :
                /\ alerts[k].category = "budget"
                /\ alerts[k].priority \in {1, 2}
                /\ \E i \in 1..Len(budgets_file) :
                        budgets_file[i].category = alerts[k].message[2]
        /\ \A i \in 1..Len(budgets_file) :
                LET category == budgets_file[i].category
                    limit == budgets_file[i].limit_paisa
                    spent == SpentIn(transactions_file, category, today[1])
                    critical == limit # 0 /\ spent * 100 >= 90 * limit
                    warning == limit # 0 /\ spent * 100 >= 80 * limit
                                         /\ spent * 100 < 90 * limit
                IN  /\ Len(BudgetAlertsFor(category, 1)) = (IF critical THEN 1 ELSE 0)
                    /\ Len(BudgetAlertsFor(category, 2)) = (IF warning THEN 1 ELSE 0)
                    /\ data[i].status_text = "Over Budget" =>
                            Len(BudgetAlertsFor(category, 1)) = 1
                    /\ data[i].status_text = "OK" =>
                            /\ Len(BudgetAlertsFor(category, 1)) = 0
                            /\ Len(BudgetAlertsFor(category, 2)) = 0

\* one budget is at exactly 100 percent and has the critical alert, the other
\* is at exactly 80 percent and has the warning
C21_Witness ==
    /\ Len(budgets_file) = 2
    /\ SpentIn(transactions_file, budgets_file[1].category, today[1]) = 10
    /\ budgets_file[1].limit_paisa = 10
    /\ SpentIn(transactions_file, budgets_file[2].category, today[1]) = 8
    /\ budgets_file[2].limit_paisa = 10
    /\ Len(check_budget_alerts) = 2
    /\ check_budget_alerts[1].priority = 1
    /\ check_budget_alerts[2].priority = 2

----------------------------------------------------------------------------
(* Claims on the spree specification *)

\* the expense lines of the ledger of one category and one day
ExpensesOn(category, date) ==
    SelectSeq(transactions_file,
              LAMBDA l : l.type = "expense" /\ l.category = category /\ l.date = date)

\* all alerts hold a spending-spree alert of priority 2 for the category
HasSpreeAlert(category) ==
    \A at_midnight \in BOOLEAN :
        \E k \in 1..Len(get_active_alerts(at_midnight)) :
            LET alert == get_active_alerts(at_midnight)[k] IN
            /\ alert.category = "spending_spree"
            /\ alert.priority = 2
            /\ alert.message[3] = category

LedgerDates == {transactions_file[i].date : i \in 1..Len(transactions_file)}

\* C22 as stated: three or more expenses of one category dated on one day,
\* whichever day, give a spending-spree alert of priority 2 for the category.
C22_SpreeAnyDay ==
    \A category \in SpreeCategories, date \in LedgerDates :
        Len(ExpensesOn(category, date)) >= 3 => HasSpreeAlert(category)

\* C22: three or more expenses of one category dated today give a
\* spending-spree alert of priority 2 for the category in get_active_alerts.
C22_SpreeToday ==
    \A category \in SpreeCategories :
        Len(ExpensesOn(category, today)) >= 3 => HasSpreeAlert(category)

\* three Food expenses of today raise the alert, beside one of another
\* category
C22_Witness ==
    /\ Len(ExpensesOn("Food", today)) = 3
    /\ Len(ExpensesOn("Other", today)) = 1
    /\ HasSpreeAlert("Food")
    /\ ~HasSpreeAlert("Other")

----------------------------------------------------------------------------
(* Claim on the score specification: savings alerts *)

\* C23: check_savings_alerts gives at most one alert: of priority 1 when the
\* month's income minus its expenses is negative, otherwise of priority 2
\* when the savings rate is below 5 (a month without income has rate 0),
\* otherwise none; there is an alert exactly when the savings component of
\* the health score is 0.
C23_SavingsAlert ==
    LET alerts == check_savings_alerts
        savings == MonthIncome - MonthExpense
        low == MonthIncome = 0 \/ savings * 100 < 5 * MonthIncome
    IN  /\ Len(alerts) <= 1
        /\ \A k \in 1..Len(alerts) : alerts[k].category = "savings"
        /\ savings < 0 => (Len(alerts) = 1 /\ alerts[1].priority = 1)
        /\ (savings >= 0 /\ low) => (Len(alerts) = 1 /\ alerts[1].priority = 2)
        /\ (savings >= 0 /\ ~low) => alerts = <<>>
        /\ (alerts # <<>>) <=> (calculate_savings_score = 0)

\* the month's expenses are above its income: the alert is critical and the
\* savings component is 0
C23_Witness ==
    /\ MonthIncome = 20
    /\ MonthExpense > 20
    /\ Len(check_savings_alerts) = 1
    /\ check_savings_alerts[1].priority = 1
    /\ calculate_savings_score = 0

----------------------------------------------------------------------------
(* Claim on the goal alert specification *)

\* the alerts of check_goal_alerts that name a goal
GoalAlertsFor(name, at_midnight) ==
    SelectSeq(check_goal_alerts(at_midnight), LAMBDA a : a.message[2] = name)

PrioritiesOf(alerts) == [k \in 1..Len(alerts) |-> alerts[k].priority]

\* whole days from now to the start of the deadline's day
WholeDaysLeft(goal, at_midnight) ==
    DaysBetween(today, goal.deadline) - (IF at_midnight THEN 0 ELSE 1)

----------------------------------------------------------------------------
(* Claim on the month-over-month specification: the comparison views *)

\* a change is the value of the month-over-month rule for two totals
FollowsMomRule(change, current, previous) ==
    /\ change.d # 0
    /\ (previous = 0 /\ current = 0) => change.n = 0
    /\ (previous = 0 /\ current # 0) => EQ(change, 100)
    /\ previous # 0 => (change.n = (current - previous) * 100 /\ change.d = previous)

\* C25: the income and expense changes of compare_with_last_month and of
\* calculate_balance_metrics are the month-over-month rule applied to this
\* month's and last month's totals: 0 when both are 0, 100 when only last
\* month's is 0, (current - previous) / previous * 100 otherwise.
C25_ChangesFollowRule ==
    LET income == SumLines(transactions_file, "income", today[1])
        last_income == SumLines(transactions_file, "income", today[1] - 1)
        expenses == SumLines(transactions_file, "expense", today[1])
        last_expenses == SumLines(transactions_file, "expense", today[1] - 1)
    IN  /\ FollowsMomRule(compare_with_last_month.income_change, income, last_income)
        /\ FollowsMomRule(compare_with_last_month.expense_change, expenses, last_expenses)
        /\ FollowsMomRule(calculate_balance_metrics.income_change, income, last_income)
        /\ FollowsMomRule(calculate_balance_metrics.expense_change, expenses, last_expenses)

----------------------------------------------------------------------------
(* Claim on the trend-data specification *)

\* C26: get_trend_data(months) has one entry for each of the last `months`
\* calendar months, the current month last, in chronological order, none
\* repeated and none skipped, and an entry holds the income and the expenses
\* of the transactions dated in its month.
C26_TrendMonths ==
    call.fn = "get_trend_data" =>
        /\ Len(call.result) = call.months
        /\ \A k \in 1..call.months :
                LET month == today[1] - (call.months - k) IN
                /\ call.result[k].month_key = month
                /\ call.result[k].income = SumLines(transactions_file, "income", month)
                /\ call.result[k].expenses = SumLines(transactions_file, "expense", month)

----------------------------------------------------------------------------
(* Claim on the goal-calculation specification: a completed goal *)

\* C27: a goal whose current amount equals its target is on track according
\* to is_goal_on_track, whatever its creation date, its deadline and the
\* current date, also after the deadline.
C27_CompleteOnTrack ==
    (call.fn = "goal_math" /\ call.goal.current_paisa = call.goal.target_paisa)
        => call.on_track

----------------------------------------------------------------------------
(* Claims on the consistency specification *)

AllMonthExpensesPositive ==
    \A i \in MonthExpenseLines : transactions_file[i].amount_paisa > 0

\* 1 or 2 expenses give no spike and 20 points; 5 points need 7 expenses
FewExpensesNoSpike ==
    /\ Cardinality(MonthExpenseLines) \in {1, 2} =>
            (detect_spending_spikes = <<>> /\ calculate_consistency_score = 20)
    /\ calculate_consistency_score = 5 => Cardinality(MonthExpenseLines) >= 7

\* C28 as stated: with positive amounts the number of spikes is strictly less
\* than half the number of the current month's expenses, in every month.
C28_SpikesBelowHalfAlways ==
    AllMonthExpensesPositive =>
        /\ 2 * Len(detect_spending_spikes) < Cardinality(MonthExpenseLines)
        /\ FewExpensesNoSpike

\* C28: with positive amounts, in a month that has an expense the number of
\* spikes of detect_spending_spikes is strictly less than half the number of
\* the month's expenses, and a month without expenses has no spike; 1 or 2
\* expenses give no spike and a consistency component of 20, and a
\* consistency component of 5 needs at least 7 expenses.
C28_SpikesBelowHalf ==
    AllMonthExpensesPositive =>
        /\ Cardinality(MonthExpenseLines) > 0 =>
                2 * Len(detect_spending_spikes) < Cardinality(MonthExpenseLines)
        /\ Cardinality(MonthExpenseLines) = 0 => detect_spending_spikes = <<>>
        /\ FewExpensesNoSpike

\* seven expenses of the month, three of them spikes: 5 points
C28_Witness ==
    /\ Cardinality(MonthExpenseLines) = 7
    /\ Len(detect_spending_spikes) = 3
    /\ calculate_consistency_score = 5

----------------------------------------------------------------------------
(* Claim on the coupling specification *)

\* C29: the savings component is not 0 only when the balance component is
\* 25 (with a balance component of 15 or 0 it is 0), the consistency
\* component is at least 5, and so is the health score.
C29_ComponentsCoupled ==
    /\ calculate_savings_score # 0 => calculate_balance_score = 25
    /\ calculate_balance_score \in {0, 15} => calculate_savings_score = 0
    /\ calculate_balance_score \in {0, 15, 25}
    /\ (calculate_balance_score = 25) <=> (MonthIncome > MonthExpense)
    /\ calculate_consistency_score >= 5
    /\ calculate_overall_health_score >= 5

\* the month is in deficit over its budget with three spikes: savings,
\* adherence and balance are 0 and the score is the 5 of consistency
C29_Witness ==
    /\ calculate_savings_score = 0
    /\ calculate_balance_score = 0
    /\ calculate_budget_adherence_score = 0
    /\ calculate_consistency_score = 5
    /\ calculate_overall_health_score = 5

----------------------------------------------------------------------------
(* Claim on the tier specification: the three lists *)

Occurrences(categories, category) ==
    Cardinality({k \in 1..Len(categories) : categories[k] = category})

\* the points of the adherence component for ok budgets out of total
AdherencePoints(ok, total) ==
    IF total = 0 THEN 15
    ELSE IF ok = total THEN 25
    ELSE IF ok * 100 >= 75 * total THEN 18
    ELSE IF ok * 100 >= 50 * total THEN 12
    ELSE IF ok * 100 >= 25 * total THEN 6
    ELSE 0

\* C30: every stored budget is in exactly one of get_overbudget_categories,
\* get_warning_categories and get_healthy_categories, the one that goes with
\* its status in get_budget_data (Over Budget, Warning, OK), and the
\* adherence component counts as under their limit as many budgets as the
\* warning and the healthy list hold together.
C30_ListsPartition ==
    LET data == get_budget_data
        over == get_overbudget_categories
        warning == get_warning_categories
        healthy == get_healthy_categories
    IN  /\ Len(data) = Len(budgets_file)
        /\ Len(over) + Len(warning) + Len(healthy) = Len(budgets_file)
        /\ \A i \in 1..Len(budgets_file) :
                LET category == budgets_file[i].category IN
                /\ data[i].category = category
                /\ Occurrences(over, category) + Occurrences(warning, category)
                        + Occurrences(healthy, category) = 1
                /\ Occurrences(over, category) = 1 <=> data[i].status_text = "Over Budget"
                /\ Occurrences(warning, category) = 1 <=> data[i].status_text = "Warning"
                /\ Occurrences(healthy, category) = 1 <=> data[i].status_text = "OK"
        /\ calculate_budget_adherence_score
                = AdherencePoints(Len(warning) + Len(healthy), Len(budgets_file))

\* a budget at exactly 70 percent is in the warning list and a budget at
\* exactly 100 percent in the over-budget list; one of two counts as under
\* its limit
C30_Witness ==
    /\ Len(budgets_file) = 2
    /\ Len(get_overbudget_categories) = 1
    /\ Len(get_warning_categories) = 1
    /\ \E i, j \in 1..2 :
            /\ EQ(get_budget_data[i].utilization, 100)
            /\ EQ(get_budget_data[j].utilization, 70)
    /\ calculate_budget_adherence_score = 12

====
